---- MODULE Spec2Model ----
(***************************************************************************)
(* A model of one run of KimchiPipeline.run (src/main.py) over the two     *)
(* connectors it drives: GitHubConnector (src/connectors/                  *)
(* github_connector.py) and ElasticsearchConnector with its                *)
(* DocumentProcessor (src/connectors/elasticsearch_connector.py).          *)
(*                                                                         *)
(* External collaborators (git, the file tree, the Elasticsearch store,    *)
(* the embedding model, the llama_index IngestionPipeline) are modelled by *)
(* their outcomes: every call either returns or raises, chosen             *)
(* nondeterministically.                                                   *)
(***************************************************************************)
EXTENDS Integers, Sequences, FiniteSets, TLC

---------------------------------------------------------------------------
(* Bounds of the model.                                                    *)

MaxConnRetries == 2

MaxBatchSize == 2

\* Calls of extract_code_files on the same tree.
MaxWalkCalls == 2

\* Pieces a file name is joined from.
MaxNameTokens == 3

\* Calls of add_extra_metadata on the same documents.
MaxEnrichCalls == 2

\* Largest chunk size and overlap set through the environment.
MaxEnvChunk == 5

\* Tokens after the prefix of a URL given to validate_github_url.
MaxUrlTokens == 5

\* config.max_retries of the GitHubConnector studied on its own.
MaxCloneRetries == 2

\* Calls made on that GitHubConnector.
MaxRepoCalls == 3

\* Calls made on one ElasticsearchConnector.
MaxConnectorCalls == 3

---------------------------------------------------------------------------
(* Program constants.                                                      *)

\* ParserConfig.chunk_size, the default DocumentProcessor() is built with.
chunk_size == 750

\* ParserConfig.chunk_overlap.
chunk_overlap == 50

\* ElasticsearchConfig.connection_retry_delay (seconds).
connection_retry_delay == 15

---------------------------------------------------------------------------
(* The local file tree: the files that may be present under the repository *)
(* path, in the order the directory reader lists them.                     *)

FileOrder == <<"a.md", "b.md", "c.png">>

FileUniverse == {FileOrder[i] : i \in 1..Len(FileOrder)}

Ext(f) == IF f = "c.png" THEN ".png" ELSE ".md"

\* Length of the file's text in the splitter's unit.
DocLen(f) == IF f = "a.md" THEN 40 ELSE 2000

\* Number of structural (heading) sections of the file.
DocSections(f) == IF f = "b.md" THEN 2 ELSE 1

---------------------------------------------------------------------------
(* GitHubConnector: the class body binds its method names top to bottom,   *)
(* so a later def of a name replaces an earlier one.                       *)

GitHubConnectorMethods ==
    << [name |-> "clone_repository", line |-> 107,
        params |-> {"force_reclone"}, required |-> {}],
       [name |-> "update_repository", line |-> 181,
        params |-> {}, required |-> {}],
       [name |-> "clone_repository", line |-> 266,
        params |-> {"repo_url", "local_path"},
        required |-> {"repo_url", "local_path"}] >>

\* The definition a name is bound to once the class body has executed.
ResolveMethod(name) ==
    LET idx == {i \in 1..Len(GitHubConnectorMethods) :
                    GitHubConnectorMethods[i].name = name}
        last == CHOOSE i \in idx : \A j \in idx : j <= i
    IN  GitHubConnectorMethods[last]

\* Python's argument binding of a call with the keyword arguments kwargs.
CallBinds(def, kwargs) ==
    /\ kwargs \subseteq def.params
    /\ def.required \subseteq kwargs

\* clone_repository(self, force_reclone=False) -> str, lines 107-140, with
\* _clone_with_retry reduced to its two outcomes.
CloneByForceOutcomes(exists, force) ==
    IF exists /\ ~force
    THEN {[kind |-> "returned", exc |-> "none"]}
    ELSE {[kind |-> "returned", exc |-> "none"],
          [kind |-> "raised", exc |-> "GitHubConnectorError"]}

\* clone_repository(self, repo_url, local_path) -> bool, lines 266-291:
\* never raises, its result is a bool and not a path.
CloneByUrlOutcomes(exists) ==
    {[kind |-> "returned_bool", exc |-> "none"]}

\* The outcomes of self.github_connector.clone_repository(**kwargs).
CloneRepositoryCall(kwargs, exists, force) ==
    LET def == ResolveMethod("clone_repository")
    IN  IF ~CallBinds(def, kwargs)
        THEN {[kind |-> "raised", exc |-> "TypeError"]}
        ELSE IF def.line = 107
             THEN CloneByForceOutcomes(exists, force)
             ELSE CloneByUrlOutcomes(exists)

---------------------------------------------------------------------------
(* GitHubConnector: file filtering.  A file or directory name is the       *)
(* sequence of its characters and a path is the sequence of its            *)
(* components below repo_path.                                             *)

\* __init__, lines 62-72.
supported_extensions ==
    { <<".", "p", "y">>,
      <<".", "j", "s">>,
      <<".", "j", "s", "x">>,
      <<".", "t", "s">>,
      <<".", "t", "s", "x">>,
      <<".", "j", "a", "v", "a">>,
      <<".", "c", "p", "p">>,
      <<".", "c">>,
      <<".", "h">>,
      <<".", "h", "p", "p">>,
      <<".", "g", "o">>,
      <<".", "r", "s">>,
      <<".", "p", "h", "p">>,
      <<".", "r", "b">>,
      <<".", "s", "w", "i", "f", "t">>,
      <<".", "k", "t">>,
      <<".", "s", "c", "a", "l", "a">>,
      <<".", "c", "s">>,
      <<".", "v", "b">>,
      <<".", "p", "l">>,
      <<".", "r">>,
      <<".", "m">>,
      <<".", "s", "h">>,
      <<".", "s", "q", "l">>,
      <<".", "h", "t", "m", "l">>,
      <<".", "c", "s", "s">>,
      <<".", "s", "c", "s", "s">>,
      <<".", "s", "a", "s", "s">>,
      <<".", "l", "e", "s", "s">>,
      <<".", "v", "u", "e">>,
      <<".", "s", "v", "e", "l", "t", "e">>,
      <<".", "m", "d">>,
      <<".", "r", "s", "t">>,
      <<".", "t", "x", "t">>,
      <<".", "j", "s", "o", "n">>,
      <<".", "x", "m", "l">>,
      <<".", "y", "a", "m", "l">>,
      <<".", "y", "m", "l">>,
      <<".", "t", "o", "m", "l">>,
      <<".", "i", "n", "i">>,
      <<".", "c", "f", "g">>,
      <<".", "c", "o", "n", "f">> }

\* __init__, lines 74-78.
skip_directories ==
    { <<".", "g", "i", "t">>,
      <<".", "s", "v", "n">>,
      <<".", "h", "g">>,
      <<"_", "_", "p", "y", "c", "a", "c", "h", "e", "_", "_">>,
      <<".", "p", "y", "t", "e", "s", "t", "_", "c", "a", "c", "h", "e">>,
      <<"n", "o", "d", "e", "_", "m", "o", "d", "u", "l", "e", "s">>,
      <<".", "v", "s", "c", "o", "d", "e">>,
      <<".", "i", "d", "e", "a">>,
      <<".", "v", "e", "n", "v">>,
      <<"v", "e", "n", "v">>,
      <<".", "e", "n", "v">>,
      <<"d", "i", "s", "t">>,
      <<"b", "u", "i", "l", "d">>,
      <<"t", "a", "r", "g", "e", "t">>,
      <<"b", "i", "n">>,
      <<"o", "b", "j">> }

UpperLetters ==
    <<"A", "B", "C", "D", "E", "F", "G", "H", "I", "J", "K", "L", "M",
      "N", "O", "P", "Q", "R", "S", "T", "U", "V", "W", "X", "Y", "Z">>

LowerLetters ==
    <<"a", "b", "c", "d", "e", "f", "g", "h", "i", "j", "k", "l", "m",
      "n", "o", "p", "q", "r", "s", "t", "u", "v", "w", "x", "y", "z">>

\* str.lower() of one character.
LowerChar(c) ==
    IF \E i \in 1..Len(UpperLetters) : UpperLetters[i] = c
    THEN LowerLetters[CHOOSE i \in 1..Len(UpperLetters) : UpperLetters[i] = c]
    ELSE c

\* A lower() that leaves every character as it is.
KeepCase(s) == s

\* str.lower()
Lower(s) == [i \in 1..Len(s) |-> LowerChar(s[i])]

\* str.rfind("."), counted from 1; 0 when s holds no dot.
RFindDot(s) ==
    IF \E i \in 1..Len(s) : s[i] = "."
    THEN CHOOSE i \in 1..Len(s) :
            /\ s[i] = "."
            /\ \A j \in (i + 1)..Len(s) : s[j] # "."
    ELSE 0

\* Path(file_path).name: the final component of the path.
PathName(path) == IF path = << >> THEN << >> ELSE path[Len(path)]

\* Path(file_path).suffix: the name from its last dot on, empty when the
\* last dot is the first or the last character of the name or is missing.
Suffix(path) ==
    LET name == PathName(path)
        i == RFindDot(name)
    IN  IF 1 < i /\ i < Len(name) THEN SubSeq(name, i, Len(name))
        ELSE << >>

\* is_file_supported
IsFileSupported(path) == Lower(Suffix(path)) \in supported_extensions

\* A directory filter that keeps every directory.
SkipNoDirectory(directory_name) == FALSE

\* should_skip_directory
ShouldSkipDirectory(directory_name) == directory_name \in skip_directories

\* The fallback encodings of read_file_content, line 308.
encodings == <<"latin-1", "cp1252", "iso-8859-1">>

\* latin-1 (iso-8859-1) maps every byte, so decoding with it cannot fail.
CanFailDecoding(encoding) == encoding \notin {"latin-1", "iso-8859-1"}

\* The outcomes one open-and-read attempt with the given encoding can have.
AttemptOutcomes(encoding) ==
    {"ok", "missing", "denied", "oserror"}
        \cup (IF CanFailDecoding(encoding) THEN {"decode"} ELSE {})

RECURSIVE ReadFallback(_, _)
\* lines 309-314: the loop over the fallback encodings, from the k-th on;
\* an OSError of a fallback attempt is raised inside the handler of the
\* UnicodeDecodeError and no except clause of read_file_content catches it.
ReadFallback(outcomes, k) ==
    IF k > Len(encodings) THEN "none"
    ELSE LET o == outcomes[1 + k]
         IN  IF o = "ok" THEN "content"
             ELSE IF o = "decode" THEN ReadFallback(outcomes, k + 1)
             ELSE "raised"

\* read_file_content, given the outcomes of its attempts in order: the
\* content, None, or an exception leaving the method.
ReadFileContent(outcomes) ==
    LET o == outcomes[1]
    IN  IF o = "ok" THEN "content"
        ELSE IF o = "decode" THEN ReadFallback(outcomes, 1)
        ELSE "none"

\* The repository the walk is modelled on: per directory (a path below
\* repo_path) the names of its subdirectories and of its files.
\*   a.py  b.png  src/c.JS  src/mk  src/build/d.js  docs/g.md
\*   .git/e.yml  .git/hooks/f.sh
RepoTree ==
    LET src == <<"s", "r", "c">>
        docs == <<"d", "o", "c", "s">>
        git == <<".", "g", "i", "t">>
        build == <<"b", "u", "i", "l", "d">>
        hooks == <<"h", "o", "o", "k", "s">>
    IN  [d \in {<< >>, <<src>>, <<docs>>, <<git>>, <<src, build>>,
                <<git, hooks>>} |->
            CASE d = << >> ->
                    [dirs |-> {src, docs, git},
                     files |-> {<<"a", ".", "p", "y">>,
                                <<"b", ".", "p", "n", "g">>}]
              [] d = <<src>> ->
                    [dirs |-> {build},
                     files |-> {<<"c", ".", "J", "S">>, <<"m", "k">>}]
              [] d = <<docs>> ->
                    [dirs |-> {}, files |-> {<<"g", ".", "m", "d">>}]
              [] d = <<git>> ->
                    [dirs |-> {hooks}, files |-> {<<"e", ".", "y", "m", "l">>}]
              [] d = <<src, build>> ->
                    [dirs |-> {}, files |-> {<<"d", ".", "j", "s">>}]
              [] OTHER ->
                    [dirs |-> {}, files |-> {<<"f", ".", "s", "h">>}]]

\* os.path.join(root, name)
PathJoin(root, name) == Append(root, name)

\* Every file of the repository, as a path.
AllFilePaths ==
    UNION {{PathJoin(d, f) : f \in RepoTree[d].files} : d \in DOMAIN RepoTree}

\* The files whose read attempts may fail; the attempts on every other
\* file succeed.
UnreliableFiles ==
    {p \in AllFilePaths :
        PathName(p) \in {<<"a", ".", "p", "y">>, <<"c", ".", "J", "S">>,
                         <<"g", ".", "m", "d">>}}

\* The sequences of attempt outcomes one read_file_content call can meet:
\* the utf-8 attempt, then the attempts of the fallback loop up to the
\* first that does not fail decoding.
OutcomeSeqs ==
    {<<o>> : o \in AttemptOutcomes("utf-8") \ {"decode"}}
    \cup {<<"decode", o>> : o \in AttemptOutcomes(encodings[1])}

\* The orders in which a directory listing can give the names of S.
Orderings(S) ==
    {q \in [1..Cardinality(S) -> S] :
        \A i, j \in 1..Cardinality(S) : i # j => q[i] # q[j]}

\* The path lies in a directory, below repo_path, named in skip_directories.
UnderSkippedDirectory(path) ==
    \E i \in 1..(Len(path) - 1) : path[i] \in skip_directories

\* The file names the checks of is_file_supported and add_extra_metadata are
\* run on: up to MaxNameTokens of these pieces, joined.
NameTokens ==
    { <<".">>, <<"x">>, <<"g", "o">>, <<"G", "o">>,
      <<"t", "e", "s", "t">>, <<"T", "e", "S", "t">> }

RECURSIVE NamesOf(_)
NamesOf(k) ==
    IF k = 0 THEN {<< >>}
    ELSE {n \o t : n \in NamesOf(k - 1), t \in NameTokens}

FileNames == UNION {NamesOf(k) : k \in 1..MaxNameTokens}

\* The directory parts the paths given to is_file_supported are built with.
DirectoryParts ==
    { << >>,
      << <<"s", "r", "c">> >>,
      << <<"x", ".", "g", "o">>, <<"s", "r", "c">> >>,
      << <<"s", "r", "c">>, <<"x", ".", "g", "o">> >> }

---------------------------------------------------------------------------
(* index.py: add_extra_metadata.  The metadata of a document is a function *)
(* from its keys to their values.                                          *)

RECURSIVE SplitFrom(_, _, _, _)
\* str.split("."), scanning s from position k on; part is the piece being
\* read and parts the pieces already closed by a dot.
SplitFrom(s, k, part, parts) ==
    IF k > Len(s) THEN Append(parts, part)
    ELSE IF s[k] = "." THEN SplitFrom(s, k + 1, << >>, Append(parts, part))
    ELSE SplitFrom(s, k + 1, Append(part, s[k]), parts)

\* line 87: file_name.split(".")[-1].lower()
FileExtension(file_name) ==
    LET parts == SplitFrom(file_name, 1, << >>, << >>)
    IN  Lower(parts[Len(parts)])

\* lines 89-107: the type the extension table gives.
TypeOfExtension(file_extension) ==
    CASE file_extension \in {<<"m", "d">>,
                             <<"a", "s", "c", "i", "i", "d", "o", "c">>,
                             <<"t", "x", "t">>} -> "readme"
      [] file_extension \in {<<"y", "a", "m", "l">>, <<"y", "m", "l">>}
            -> "yaml"
      [] file_extension = <<"g", "o">> -> "go"
      [] file_extension = <<"j", "s", "o", "n">> -> "json"
      [] file_extension = <<"p", "n", "g">> -> "image"
      [] file_extension = <<"s", "h">> -> "shell"
      [] file_extension = <<"t", "p", "l">> -> "template"
      [] file_extension = <<"m", "o", "d">> -> "module"
      [] OTHER -> "others"

\* line 109: "test" in s
ContainsTest(s) ==
    \E i \in 1..(Len(s) - 3) : SubSeq(s, i, i + 3) = <<"t", "e", "s", "t">>

\* A type that is read off the extension alone.
TypeByExtensionOnly(file_name) == TypeOfExtension(FileExtension(file_name))

\* lines 87-110: the type add_extra_metadata gives a file name.
DerivedType(file_name) ==
    IF ContainsTest(Lower(file_name)) THEN "test"
    ELSE TypeOfExtension(FileExtension(file_name))

\* line 114: the keys add_extra_metadata keeps.
allowed_keys == {"file_name", "file_path", "type"}

\* A strip that keeps every key.
KeepMetadata(metadata) == metadata

\* A strip that keeps file_path and type only.
StripFileName(metadata) ==
    [key \in DOMAIN metadata \cap {"file_path", "type"} |-> metadata[key]]

\* lines 112-116: the copy of the metadata without the other keys.
StripMetadata(metadata) ==
    [key \in DOMAIN metadata \cap allowed_keys |-> metadata[key]]

\* lines 86-117, for one document.
AddExtraMetadata(metadata) ==
    LET file_name == IF "file_name" \in DOMAIN metadata
                     THEN metadata["file_name"] ELSE << >>
        stripped_metadata == StripMetadata(metadata)
    IN  [key \in DOMAIN stripped_metadata \cup {"type"} |->
            IF key = "type" THEN DerivedType(file_name)
            ELSE stripped_metadata[key]]

\* The keys a loader may give a document.
LoaderKeys == {"file_name", "file_path", "type", "file_size"}

\* The values a loader may give the key type.
LoaderTypes == {"test", "custom"}

---------------------------------------------------------------------------
(* config.py: the parser configuration.                                    *)

\* The environment variable is not set: os.getenv gives its default.
Unset == -1

\* int(os.getenv(name, default))
EnvInt(value, default) == IF value = Unset THEN default ELSE value

\* ParserConfig(): the defaults of the dataclass, lines 45-51.
DefaultParserConfig ==
    [chunk_size |-> chunk_size, chunk_overlap |-> chunk_overlap]

\* ConfigManager.create_parser_config; nothing is validated, neither here
\* nor in the dataclass.
CreateParserConfig(envSize, envOverlap) ==
    [chunk_size |-> EnvInt(envSize, chunk_size),
     chunk_overlap |-> EnvInt(envOverlap, chunk_overlap)]

---------------------------------------------------------------------------
(* DocumentProcessor.                                                      *)

\* _setup_parsers: the registered (parser, extensions) pairs, in order.
parsers_and_extensions ==
    << [parser |-> "SentenceSplitter", extensions |-> {".md"}],
       [parser |-> "MarkdownNodeParser", extensions |-> {".md"}] >>

NumParsers == Len(parsers_and_extensions)

\* glob.glob(f"{repo_path}/**/*{ext}") over the extensions of one parser.
MatchingFiles(files, extensions) == {f \in files : Ext(f) \in extensions}

\* A load without required_exts: one document per file of the tree.
LoadDataAnyExtension(files, extensions) ==
    SelectSeq(FileOrder, LAMBDA f : f \in files)

\* SimpleDirectoryReader(required_exts=extensions).load_data(): one document
\* per matching file, in listing order.
LoadData(files, extensions) ==
    SelectSeq(FileOrder, LAMBDA f : f \in MatchingFiles(files, extensions))

\* Number of chunks of a size-with-overlap split of n units.
SizeOverlapCount(n) ==
    IF n <= chunk_size THEN 1
    ELSE LET step == chunk_size - chunk_overlap
             rest == n - chunk_overlap
         IN  (rest + step - 1) \div step

\* Number of nodes one parser makes of one document.
NodeCount(parser, f) ==
    IF parser = "SentenceSplitter" THEN SizeOverlapCount(DocLen(f))
    ELSE DocSections(f)

\* The nodes one parser makes of one document, in document order.
NodesOfDoc(parser, f) ==
    [k \in 1..NodeCount(parser, f) |->
        [file |-> f, parser |-> parser, seq |-> k - 1]]

RECURSIVE GetNodesFromDocuments(_, _)
\* parser.get_nodes_from_documents(docs).
GetNodesFromDocuments(parser, docs) ==
    IF docs = << >> THEN << >>
    ELSE NodesOfDoc(parser, Head(docs))
            \o GetNodesFromDocuments(parser, Tail(docs))

\* An extend that drops the nodes of files an earlier parser has chunked.
ExtendNodesDedup(nodes, parsed) ==
    nodes \o SelectSeq(parsed, LAMBDA n :
                \A i \in 1..Len(nodes) : nodes[i].file # n.file)

\* nodes.extend(parsed_nodes)
ExtendNodes(nodes, parsed) == nodes \o parsed

---------------------------------------------------------------------------
(* State of one run.                                                       *)

VARIABLES
    update_repo,        \* run(update_repo=...)
    force_reclone,      \* run(force_reclone=...)
    pathExists,         \* os.path.exists(get_local_repo_path())
    connection_retries, \* ElasticsearchConfig.connection_retries
    batch_size,         \* ElasticsearchConfig.batch_size
    tree,               \* the files under the local repository path
    pc,                 \* position of the run
    repo_path,          \* run's local repo_path: "unset" or "local"
    vector_store,       \* ElasticsearchConnector.vector_store
    clientOpen,         \* an AsyncElasticsearch client has been created
    clientClosed,       \* that client has been closed
    attempt,            \* connect's loop variable
    attempts,           \* store creation attempts made
    timeouts,           \* attempts that raised ConnectionTimeout
    slept,              \* seconds connect has slept in total
    connectResult,      \* "none", "store", "exhausted" or "error"
    parserIdx,          \* parse_documents' position in parsers_and_extensions
    globRuns,           \* per parser: times its files were discovered
    chunkRuns,          \* per parser: times it chunked its documents
    nodes,              \* parse_documents' nodes list
    embedCalls,         \* embedding calls made by pipeline.run
    embedFailedAt,      \* index of the node whose embedding failed, or 0
    writeCalls,         \* batch writes attempted by pipeline.run
    written,            \* nodes written to the index
    ingestResult,       \* process_and_ingest_documents: "pending",
                        \*   "returned" or "raised"
    reported,           \* the counts the ingestion reports on return
    exception,          \* the exception in flight or handled by run
    completed,          \* "Pipeline Completed Successfully" was printed
    exitStatus,         \* sys.exit status, -1 when sys.exit was not called
    phase               \* the phase of the run's state machine

\* State of GitHubConnector.extract_code_files, which run does not call.
VARIABLES
    readOutcomes,       \* per file, the outcomes its read attempts meet
    walkCall,           \* number of extract_code_files calls started
    walkPc,             \* "idle", "walk" (os.walk is asked for the next
                        \*   directory), "files" (the loop over its files),
                        \*   "returned" or "raised"
    walkStack,          \* the directories os.walk has still to yield
    walkRoot,           \* the directory whose files are being looped over
    filesLeft,          \* its file names not yet looped over
    code_files,         \* the list being built, as file paths
    readCalls,          \* the paths read_file_content was called with
    walked,             \* the directories os.walk has yielded
    returnedSets        \* the sets of paths the calls have returned

walkVars == << readOutcomes, walkCall, walkPc, walkStack, walkRoot,
               filesLeft, code_files, readCalls, walked, returnedSets >>

\* State of a call of is_file_supported.
VARIABLES
    checkedPath,        \* the argument file_path, a path
    is_supported        \* "unchecked", or the answer: "supported" or
                        \*   "unsupported"

supportVars == << checkedPath, is_supported >>

\* State of add_extra_metadata (index.py) on one document.
VARIABLES
    loaded,             \* doc.metadata as the loader made it
    metadata,           \* doc.metadata
    enrichCalls         \* number of add_extra_metadata calls on the document

metaVars == << loaded, metadata, enrichCalls >>

\* State of the start of the program with respect to the parser settings.
VARIABLES
    envChunkSize,       \* PARSER_CHUNK_SIZE, or Unset
    envChunkOverlap,    \* PARSER_CHUNK_OVERLAP, or Unset
    cfgPc,              \* "load_config", "connector", "parse_documents",
                        \*   "parsed"
    parser_config,      \* AppConfig.parser
    processorConfig     \* DocumentProcessor.config

configVars == << envChunkSize, envChunkOverlap, cfgPc, parser_config,
                 processorConfig >>

\* State of one ElasticsearchConnector under calls of connect,
\* process_and_ingest_documents and close.
VARIABLES
    connRetries,        \* config.connection_retries
    connStore,          \* self.vector_store: NoStore or "store"
    storeClosed,        \* close() was called on the store connStore holds
    connPc,             \* "idle", "connect_loop" or "ingest"
    connCaller,         \* who called connect: "user" or "process"
    connAttempt,        \* the loop variable of connect
    connCalls,          \* calls made on the connector
    storeBefore,        \* self.vector_store when connect was called last
    lastConnect,        \* how the last connect ended: "none", "ok", "failed"
    lastOutcome,        \* the outcome of the last store creation attempt
    created,            \* some store creation attempt has succeeded
    usedClosed          \* pipeline.run was given a closed store

connVars == << connRetries, connStore, storeClosed, connPc, connCaller,
               connAttempt, connCalls, storeBefore, lastConnect,
               lastOutcome, created, usedClosed >>

\* validate_github_url and get_repository_name_from_url applied to one URL:
\* the URL, whether the two have been called, and what they returned.
VARIABLES url, urlPc, url_valid, repo_name
urlVars == << url, urlPc, url_valid, repo_name >>

\* One GitHubConnector under calls of clone_repository(repo_url,
\* local_path), process_repository, update_repository and
\* _clone_with_retry on one local path.
VARIABLES
    localExists,        \* os.path.exists of the local path
    max_retries,        \* config.max_retries
    repoOp,             \* the method called last
    repoPc,             \* "idle", or "retry_loop" inside _clone_with_retry
    repoResult,         \* what the last call returned or raised
    repoSteps,          \* what the last call did, in order
    existedBefore,      \* localExists when the last call began
    cloneOutcome,       \* how the clone of the last call went
    extractOutcome,     \* how extract_code_files of the last call went
    urlArg,             \* repo_url of the last process_repository call
    cloneAttempt,       \* _clone_with_retry's loop variable
    repoCalls           \* calls made so far
repoVars == << localExists, max_retries, repoOp, repoPc, repoResult,
               repoSteps, existedBefore, cloneOutcome, extractOutcome,
               urlArg, cloneAttempt, repoCalls >>

\* The variables of the operations that are not part of run.
offRunVars == << walkVars, supportVars, metaVars, configVars, connVars,
                 urlVars, repoVars >>

runVars == << update_repo, force_reclone, pathExists, connection_retries,
              batch_size, tree, pc, repo_path, vector_store, clientOpen,
              clientClosed, attempt, attempts, timeouts, slept,
              connectResult, parserIdx, globRuns, chunkRuns, nodes,
              embedCalls, embedFailedAt, writeCalls, written, ingestResult,
              reported, exception, completed, exitStatus, phase >>

vars == << runVars, offRunVars >>

\* The variables extract_code_files leaves alone.
notWalkVars == << runVars, supportVars, metaVars, configVars, connVars,
                  urlVars, repoVars >>

\* The variables is_file_supported leaves alone.
notSupportVars == << runVars, walkVars, metaVars, configVars, connVars,
                     urlVars, repoVars >>

\* The variables add_extra_metadata leaves alone.
notMetaVars == << runVars, walkVars, supportVars, configVars, connVars,
                  urlVars, repoVars >>

\* The variables the loading of the configuration leaves alone.
notConfigVars == << runVars, walkVars, supportVars, metaVars, connVars,
                    urlVars, repoVars >>

\* The variables the calls on one ElasticsearchConnector leave alone.
notConnVars == << runVars, walkVars, supportVars, metaVars, configVars,
                  urlVars, repoVars >>

notUrlVars == << runVars, walkVars, supportVars, metaVars, configVars,
                 connVars, repoVars >>

notRepoVars == << runVars, walkVars, supportVars, metaVars, configVars,
                  connVars, urlVars >>

inputVars == << update_repo, force_reclone, pathExists, connection_retries,
                batch_size, tree >>

connectVars == << attempt, attempts, timeouts, slept, connectResult >>

parseVars == << parserIdx, globRuns, chunkRuns, nodes >>

ingestVars == << embedCalls, embedFailedAt, writeCalls, written,
                 ingestResult, reported >>

storeVars == << vector_store, clientOpen, clientClosed >>

NoStore == "None"

\* extract_code_files has not been called.
WalkIdle ==
    /\ readOutcomes = [p \in AllFilePaths |-> <<"ok">>]
    /\ walkCall = 0
    /\ walkPc = "idle"
    /\ walkStack = << >>
    /\ walkRoot = << >>
    /\ filesLeft = {}
    /\ code_files = << >>
    /\ readCalls = {}
    /\ walked = {}
    /\ returnedSets = {}

\* is_file_supported has not been called.
SupportIdle ==
    /\ checkedPath = << >>
    /\ is_supported = "unchecked"

\* add_extra_metadata has no document.
MetaIdle ==
    /\ loaded = << >>
    /\ metadata = << >>
    /\ enrichCalls = 0

\* The configuration is not looked at.
ConfigIdle ==
    /\ envChunkSize = Unset
    /\ envChunkOverlap = Unset
    /\ cfgPc = "load_config"
    /\ parser_config = DefaultParserConfig
    /\ processorConfig = DefaultParserConfig

\* The connector is constructed and not called.
ConnIdle ==
    /\ connRetries = 0
    /\ connStore = NoStore
    /\ storeClosed = FALSE
    /\ connPc = "idle"
    /\ connCaller = "user"
    /\ connAttempt = 0
    /\ connCalls = 0
    /\ storeBefore = NoStore
    /\ lastConnect = "none"
    /\ lastOutcome = "none"
    /\ created = FALSE
    /\ usedClosed = FALSE

\* No URL has been given to the connector.
UrlIdle ==
    /\ url = << >>
    /\ urlPc = "idle"
    /\ url_valid = FALSE
    /\ repo_name = << >>

\* No method of the GitHubConnector studied on its own has been called.
RepoIdle ==
    /\ localExists = FALSE
    /\ max_retries = 0
    /\ repoOp = "none"
    /\ repoPc = "idle"
    /\ repoResult = "none"
    /\ repoSteps = << >>
    /\ existedBefore = FALSE
    /\ cloneOutcome = "none"
    /\ extractOutcome = "none"
    /\ urlArg = << >>
    /\ cloneAttempt = 0
    /\ repoCalls = 0

\* No operation outside run has been called.
OffRunIdle ==
    /\ WalkIdle
    /\ SupportIdle
    /\ MetaIdle
    /\ ConfigIdle
    /\ ConnIdle
    /\ UrlIdle
    /\ RepoIdle

\* The state of run after construction of the pipeline.
RunInit ==
    /\ update_repo \in BOOLEAN
    /\ force_reclone \in BOOLEAN
    /\ pathExists \in BOOLEAN
    /\ connection_retries \in 0..MaxConnRetries
    /\ batch_size \in 1..MaxBatchSize
    /\ tree \in SUBSET FileUniverse
    /\ pc = "run_repo"
    /\ repo_path = "unset"
    /\ vector_store = NoStore
    /\ clientOpen = FALSE
    /\ clientClosed = FALSE
    /\ attempt = 0
    /\ attempts = 0
    /\ timeouts = 0
    /\ slept = 0
    /\ connectResult = "none"
    /\ parserIdx = 1
    /\ globRuns = [p \in 1..NumParsers |-> 0]
    /\ chunkRuns = [p \in 1..NumParsers |-> 0]
    /\ nodes = << >>
    /\ embedCalls = 0
    /\ embedFailedAt = 0
    /\ writeCalls = 0
    /\ written = 0
    /\ ingestResult = "pending"
    /\ reported = [successful |-> 0, failed |-> 0]
    /\ exception = "none"
    /\ completed = FALSE
    /\ exitStatus = -1
    /\ phase = "NotStarted"

Init == RunInit /\ OffRunIdle

\* run is not called: its state stays the one after construction, for one
\* choice of its arguments.
RunIdle ==
    /\ RunInit
    /\ ~update_repo
    /\ ~force_reclone
    /\ ~pathExists
    /\ connection_retries = 0
    /\ batch_size = 1
    /\ tree = {}

---------------------------------------------------------------------------
(* KimchiPipeline.run, step 1: repository operations.                      *)

\* The effect on run of a call of clone_repository with outcome r.
RepoCallEffect(r) ==
    IF r.kind = "raised"
    THEN /\ exception' = r.exc
         /\ pc' = "run_except"
         /\ UNCHANGED repo_path
    ELSE /\ repo_path' = IF r.kind = "returned" THEN "local" ELSE "bool"
         /\ pc' = "ingest_entry"
         /\ UNCHANGED exception

\* run, update_repo false: clone_repository(force_reclone=force_reclone).
RunCloneRepository ==
    /\ pc = "run_repo"
    /\ ~update_repo
    /\ \E r \in CloneRepositoryCall({"force_reclone"}, pathExists,
                                    force_reclone) : RepoCallEffect(r)
    /\ UNCHANGED offRunVars
    /\ UNCHANGED << inputVars, storeVars, connectVars, parseVars,
                    ingestVars, completed, exitStatus, phase >>

\* run, update_repo true: update_repository up to its first git call.
RunUpdateRepository ==
    /\ pc = "run_repo"
    /\ update_repo
    /\ IF pathExists
       THEN /\ pc' = "pull"
            /\ UNCHANGED << repo_path, exception >>
       ELSE \E r \in CloneRepositoryCall({}, pathExists, FALSE) :
                RepoCallEffect(r)
    /\ UNCHANGED offRunVars
    /\ UNCHANGED << inputVars, storeVars, connectVars, parseVars,
                    ingestVars, completed, exitStatus, phase >>

\* update_repository: git pull, and the fresh clone when the pull fails.
UpdatePull ==
    /\ pc = "pull"
    /\ \E pulled \in BOOLEAN :
          IF pulled
          THEN /\ repo_path' = "local"
               /\ pc' = "ingest_entry"
               /\ UNCHANGED exception
          ELSE \E r \in CloneRepositoryCall({"force_reclone"}, pathExists,
                                            TRUE) : RepoCallEffect(r)
    /\ UNCHANGED offRunVars
    /\ UNCHANGED << inputVars, storeVars, connectVars, parseVars,
                    ingestVars, completed, exitStatus, phase >>

---------------------------------------------------------------------------
(* ElasticsearchConnector.connect.                                         *)

\* The test with its condition inverted.
NeedsConnectInverted(store) == store # NoStore

\* process_and_ingest_documents: if not self.vector_store
NeedsConnect(store) == store = NoStore

\* A loop that makes one attempt too many.
ConnectLoopOffByOne(a, retries) == a <= retries

\* for attempt in range(self.config.connection_retries)
ConnectLoopContinues(a, retries) == a < retries

\* The loop variable after an attempt that timed out.
NextAttempt(a) == a + 1

\* hasattr(self.vector_store, "close"): an ElasticsearchStore has close(),
\* None has not.
HasClose(store) == store # NoStore

\* process_and_ingest_documents, lines 330-331.
ProcessEntry ==
    /\ pc = "ingest_entry"
    /\ pc' = IF NeedsConnect(vector_store) THEN "connect" ELSE "parse_glob"
    /\ UNCHANGED offRunVars
    /\ UNCHANGED << inputVars, repo_path, storeVars, connectVars, parseVars,
                    ingestVars, exception, completed, exitStatus, phase >>

\* connect, lines 290-298: the client is created once, before the loop.
ConnectOpen ==
    /\ pc = "connect"
    /\ clientOpen' = TRUE
    /\ attempt' = 0
    /\ phase' = "Connecting"
    /\ pc' = "connect_loop"
    /\ UNCHANGED offRunVars
    /\ UNCHANGED << inputVars, repo_path, vector_store, clientClosed,
                    attempts, timeouts, slept, connectResult, parseVars,
                    ingestVars, exception, completed, exitStatus >>

\* connect, lines 300-312: one attempt to create the store.
ConnectAttempt ==
    /\ pc = "connect_loop"
    /\ ConnectLoopContinues(attempt, connection_retries)
    /\ attempts' = attempts + 1
    /\ \E outcome \in {"ok", "timeout", "error"} :
          CASE outcome = "ok" ->
                  /\ vector_store' = "store"
                  /\ connectResult' = "store"
                  /\ phase' = "Connected"
                  /\ pc' = "parse_glob"
                  /\ UNCHANGED << attempt, timeouts, slept, exception,
                                  ingestResult >>
            [] outcome = "timeout" ->
                  /\ timeouts' = timeouts + 1
                  /\ slept' = slept + connection_retry_delay
                  /\ attempt' = NextAttempt(attempt)
                  /\ UNCHANGED << vector_store, connectResult, phase, pc,
                                  exception, ingestResult >>
            [] outcome = "error" ->
                  /\ connectResult' = "error"
                  /\ exception' = "StoreError"
                  /\ ingestResult' = "raised"
                  /\ phase' = "ConnectFailed"
                  /\ pc' = "run_except"
                  /\ UNCHANGED << vector_store, attempt, timeouts, slept >>
    /\ UNCHANGED offRunVars
    /\ UNCHANGED << inputVars, repo_path, clientOpen, clientClosed,
                    parseVars, embedCalls, embedFailedAt, writeCalls,
                    written, reported, completed, exitStatus >>

\* A connect that starts over when its attempts ran out.
ConnectRetryForever ==
    /\ pc = "connect_loop"
    /\ ~ConnectLoopContinues(attempt, connection_retries)
    /\ attempt' = 0
    /\ attempts' = 0
    /\ timeouts' = 0
    /\ slept' = 0
    /\ UNCHANGED offRunVars
    /\ UNCHANGED << inputVars, repo_path, storeVars, connectResult, pc,
                    parseVars, ingestVars, exception, completed, exitStatus,
                    phase >>

\* connect, lines 314-316: the loop ran out; the error propagates out of
\* process_and_ingest_documents.
ConnectExhausted ==
    /\ pc = "connect_loop"
    /\ ~ConnectLoopContinues(attempt, connection_retries)
    /\ connectResult' = "exhausted"
    /\ exception' = "ElasticsearchConnectorError"
    /\ ingestResult' = "raised"
    /\ phase' = "ConnectFailed"
    /\ pc' = "run_except"
    /\ UNCHANGED offRunVars
    /\ UNCHANGED << inputVars, repo_path, storeVars, attempt, attempts,
                    timeouts, slept, parseVars, embedCalls, embedFailedAt,
                    writeCalls, written, reported, completed, exitStatus >>

---------------------------------------------------------------------------
(* DocumentProcessor.parse_documents.                                      *)

\* lines 107-112 and 136-137: the files of the next parser are looked up.
ParseDiscover ==
    /\ pc = "parse_glob"
    /\ parserIdx <= NumParsers
    /\ globRuns' = [globRuns EXCEPT ![parserIdx] = @ + 1]
    /\ phase' = "Discovering"
    /\ IF MatchingFiles(tree, parsers_and_extensions[parserIdx].extensions)
            # {}
       THEN /\ pc' = "parse_chunk"
            /\ UNCHANGED parserIdx
       ELSE /\ parserIdx' = parserIdx + 1
            /\ UNCHANGED pc
    /\ UNCHANGED offRunVars
    /\ UNCHANGED << inputVars, repo_path, storeVars, connectVars, chunkRuns,
                    nodes, ingestVars, exception, completed, exitStatus >>

\* lines 117-135: the documents are loaded and chunked by the parser.
ParseChunk ==
    /\ pc = "parse_chunk"
    /\ LET pe == parsers_and_extensions[parserIdx]
           docs == LoadData(tree, pe.extensions)
           parsed_nodes == GetNodesFromDocuments(pe.parser, docs)
       IN  nodes' = ExtendNodes(nodes, parsed_nodes)
    /\ chunkRuns' = [chunkRuns EXCEPT ![parserIdx] = @ + 1]
    /\ parserIdx' = parserIdx + 1
    /\ phase' = "Chunking"
    /\ pc' = "parse_glob"
    /\ UNCHANGED offRunVars
    /\ UNCHANGED << inputVars, repo_path, storeVars, connectVars, globRuns,
                    ingestVars, exception, completed, exitStatus >>

\* parse_documents returns; process_and_ingest_documents, lines 337-341.
ParseReturn ==
    /\ pc = "parse_glob"
    /\ parserIdx > NumParsers
    /\ IF nodes = << >>
       THEN /\ ingestResult' = "returned"
            /\ reported' = [successful |-> 0, failed |-> 0]
            /\ phase' = "Completed"
            /\ pc' = "run_completed"
       ELSE /\ pc' = "embed"
            /\ UNCHANGED << ingestResult, reported, phase >>
    /\ UNCHANGED offRunVars
    /\ UNCHANGED << inputVars, repo_path, storeVars, connectVars, parseVars,
                    embedCalls, embedFailedAt, writeCalls, written,
                    exception, completed, exitStatus >>

---------------------------------------------------------------------------
(* process_and_ingest_documents, lines 343-350: IngestionPipeline.run      *)
(* embeds the nodes one after the other, then writes them to the store in  *)
(* batches of batch_size. A failure of either raises out of pipeline.run.  *)

Min(a, b) == IF a < b THEN a ELSE b

\* except Exception as e: raise ElasticsearchConnectorError(...)
IngestRaises ==
    /\ ingestResult' = "raised"
    /\ exception' = "ElasticsearchConnectorError"
    /\ pc' = "run_except"

\* The embedding of the next node.
EmbedChunk ==
    /\ pc = "embed"
    /\ embedCalls < Len(nodes)
    /\ embedCalls' = embedCalls + 1
    /\ phase' = "EmbeddingWriting"
    /\ \E ok \in BOOLEAN :
          IF ok
          THEN /\ pc' = IF embedCalls' = Len(nodes) THEN "write" ELSE "embed"
               /\ UNCHANGED << embedFailedAt, ingestResult, exception >>
          ELSE /\ embedFailedAt' = embedCalls'
               /\ IngestRaises
    /\ UNCHANGED offRunVars
    /\ UNCHANGED << inputVars, repo_path, storeVars, connectVars, parseVars,
                    writeCalls, written, reported, completed, exitStatus >>

\* The write of the next batch; after the last one, lines 347 and return.
WriteBatch ==
    /\ pc = "write"
    /\ written < Len(nodes)
    /\ writeCalls' = writeCalls + 1
    /\ \E ok \in BOOLEAN :
          IF ok
          THEN /\ written' = Min(written + batch_size, Len(nodes))
               /\ IF written' = Len(nodes)
                  THEN /\ ingestResult' = "returned"
                       /\ reported' = [successful |-> Len(nodes),
                                       failed |-> 0]
                       /\ phase' = "Completed"
                       /\ pc' = "run_completed"
                  ELSE UNCHANGED << ingestResult, reported, phase, pc >>
               /\ UNCHANGED exception
          ELSE /\ IngestRaises
               /\ UNCHANGED << written, reported, phase >>
    /\ UNCHANGED offRunVars
    /\ UNCHANGED << inputVars, repo_path, storeVars, connectVars, parseVars,
                    embedCalls, embedFailedAt, completed, exitStatus >>

---------------------------------------------------------------------------
(* KimchiPipeline.run, the end of the try block and its handlers.          *)

\* line 89: print("=== Pipeline Completed Successfully ===")
RunCompleted ==
    /\ pc = "run_completed"
    /\ completed' = TRUE
    /\ pc' = "run_finally"
    /\ UNCHANGED offRunVars
    /\ UNCHANGED << inputVars, repo_path, storeVars, connectVars, parseVars,
                    ingestVars, exception, exitStatus, phase >>

\* lines 91-96: both handlers print the error and call sys.exit(1).
RunExcept ==
    /\ pc = "run_except"
    /\ exitStatus' = 1
    /\ pc' = "run_finally"
    /\ UNCHANGED offRunVars
    /\ UNCHANGED << inputVars, repo_path, storeVars, connectVars, parseVars,
                    ingestVars, exception, completed, phase >>

\* lines 97-99 with ElasticsearchConnector.close.
RunFinally ==
    /\ pc = "run_finally"
    /\ clientClosed' = IF HasClose(vector_store) THEN TRUE ELSE clientClosed
    /\ pc' = "done"
    /\ UNCHANGED offRunVars
    /\ UNCHANGED << inputVars, repo_path, vector_store, clientOpen,
                    connectVars, parseVars, ingestVars, exception, completed,
                    exitStatus, phase >>

Next ==
    \/ RunCloneRepository
    \/ RunUpdateRepository
    \/ UpdatePull
    \/ ProcessEntry
    \/ ConnectOpen
    \/ ConnectAttempt
    \/ ConnectExhausted
    \/ ParseDiscover
    \/ ParseChunk
    \/ ParseReturn
    \/ EmbedChunk
    \/ WriteBatch
    \/ RunCompleted
    \/ RunExcept
    \/ RunFinally

Spec == Init /\ [][Next]_vars

\* The run is one sequential thread: a step that can be taken is taken.
FairSpec == Spec /\ WF_vars(Next)

RunEnded == pc = "done"

---------------------------------------------------------------------------
(* GitHubConnector.extract_code_files.                                     *)

\* The files of the walk are given; the outcomes of the read attempts on
\* the unreliable ones are drawn from OutcomeSeqs.
WalkInit ==
    /\ \E chosen \in [UnreliableFiles -> OutcomeSeqs] :
          readOutcomes = [p \in AllFilePaths |->
                            IF p \in UnreliableFiles THEN chosen[p]
                            ELSE <<"ok">>]
    /\ walkCall = 0
    /\ walkPc = "idle"
    /\ walkStack = << >>
    /\ walkRoot = << >>
    /\ filesLeft = {}
    /\ code_files = << >>
    /\ readCalls = {}
    /\ walked = {}
    /\ returnedSets = {}

\* lines 331-333: extract_code_files is called, the first time or again on
\* the unchanged tree; os.walk starts at repo_path.
ExtractCodeFiles ==
    /\ walkPc \in {"idle", "returned"}
    /\ walkCall < MaxWalkCalls
    /\ walkCall' = walkCall + 1
    /\ code_files' = << >>
    /\ walkStack' = << << >> >>
    /\ walkPc' = "walk"
    /\ UNCHANGED notWalkVars
    /\ UNCHANGED << readOutcomes, walkRoot, filesLeft, readCalls, walked,
                    returnedSets >>

\* lines 333-335: os.walk yields the next directory, top down; the loop
\* body prunes dirs in place, and os.walk later descends into what is left
\* of dirs, in listing order, before it goes on with the siblings.
WalkYield ==
    /\ walkPc = "walk"
    /\ walkStack # << >>
    /\ LET root == Head(walkStack)
           dirs == {d \in RepoTree[root].dirs : ~ShouldSkipDirectory(d)}
       IN  /\ \E q \in Orderings(dirs) :
                 walkStack' = [i \in 1..Len(q) |-> PathJoin(root, q[i])]
                                 \o Tail(walkStack)
           /\ walkRoot' = root
           /\ filesLeft' = RepoTree[root].files
           /\ walked' = walked \cup {root}
    /\ walkPc' = "files"
    /\ UNCHANGED notWalkVars
    /\ UNCHANGED << readOutcomes, walkCall, code_files, readCalls,
                    returnedSets >>

\* lines 337-340: the next file of the listing is not supported.
FileNotSupported ==
    /\ walkPc = "files"
    /\ \E file \in filesLeft :
          /\ ~IsFileSupported(PathJoin(walkRoot, file))
          /\ filesLeft' = filesLeft \ {file}
    /\ UNCHANGED notWalkVars
    /\ UNCHANGED << readOutcomes, walkCall, walkPc, walkStack, walkRoot,
                    code_files, readCalls, walked, returnedSets >>

\* lines 340-346: the next file is supported and read; its content is
\* appended.
FileAppended ==
    /\ walkPc = "files"
    /\ \E file \in filesLeft :
          LET file_path == PathJoin(walkRoot, file)
          IN  /\ IsFileSupported(file_path)
              /\ ReadFileContent(readOutcomes[file_path]) = "content"
              /\ readCalls' = readCalls \cup {file_path}
              /\ code_files' = Append(code_files, file_path)
              /\ filesLeft' = filesLeft \ {file}
    /\ UNCHANGED notWalkVars
    /\ UNCHANGED << readOutcomes, walkCall, walkPc, walkStack, walkRoot,
                    walked, returnedSets >>

\* lines 340-342: the next file is supported, read_file_content returns
\* None and the file is left out.
FileOmitted ==
    /\ walkPc = "files"
    /\ \E file \in filesLeft :
          LET file_path == PathJoin(walkRoot, file)
          IN  /\ IsFileSupported(file_path)
              /\ ReadFileContent(readOutcomes[file_path]) = "none"
              /\ readCalls' = readCalls \cup {file_path}
              /\ filesLeft' = filesLeft \ {file}
    /\ UNCHANGED notWalkVars
    /\ UNCHANGED << readOutcomes, walkCall, walkPc, walkStack, walkRoot,
                    code_files, walked, returnedSets >>

\* line 341: read_file_content raises; nothing in extract_code_files
\* catches the exception, which ends the call.
FileReadRaises ==
    /\ walkPc = "files"
    /\ \E file \in filesLeft :
          LET file_path == PathJoin(walkRoot, file)
          IN  /\ IsFileSupported(file_path)
              /\ ReadFileContent(readOutcomes[file_path]) = "raised"
              /\ readCalls' = readCalls \cup {file_path}
    /\ walkPc' = "raised"
    /\ UNCHANGED notWalkVars
    /\ UNCHANGED << readOutcomes, walkCall, walkStack, walkRoot, filesLeft,
                    code_files, walked, returnedSets >>

\* line 337: the files of the directory are exhausted.
FilesDone ==
    /\ walkPc = "files"
    /\ filesLeft = {}
    /\ walkPc' = "walk"
    /\ UNCHANGED notWalkVars
    /\ UNCHANGED << readOutcomes, walkCall, walkStack, walkRoot, filesLeft,
                    code_files, readCalls, walked, returnedSets >>

\* line 348: os.walk is exhausted and code_files is returned.
ExtractReturn ==
    /\ walkPc = "walk"
    /\ walkStack = << >>
    /\ returnedSets' = returnedSets
          \cup {{code_files[i] : i \in 1..Len(code_files)}}
    /\ walkPc' = "returned"
    /\ UNCHANGED notWalkVars
    /\ UNCHANGED << readOutcomes, walkCall, walkStack, walkRoot, filesLeft,
                    code_files, readCalls, walked >>

WalkNext ==
    \/ ExtractCodeFiles
    \/ WalkYield
    \/ FileNotSupported
    \/ FileAppended
    \/ FileOmitted
    \/ FileReadRaises
    \/ FilesDone
    \/ ExtractReturn

\* extract_code_files called on its own, as process_repository calls it.
WalkStart ==
    /\ RunIdle
    /\ WalkInit
    /\ SupportIdle
    /\ MetaIdle
    /\ ConfigIdle
    /\ ConnIdle
    /\ UrlIdle
    /\ RepoIdle

WalkSpec == WalkStart /\ [][WalkNext]_vars

---------------------------------------------------------------------------
(* Helpers of the properties.                                              *)

ParserIndices == 1..NumParsers

\* The call of process_and_ingest_documents has returned or raised.
IngestEnded == ingestResult # "pending"

\* Store creation failed: the retries ran out or another error was raised.
StoreCreationFailed == connectResult \in {"exhausted", "error"}

\* parse_documents has returned.
ParseFinished == parserIdx > NumParsers

RECURSIVE SumOver(_, _, _)
\* The sum of NodeCount(parser, f) over the files of the set fs.
SumOver(parser, fs, acc) ==
    IF fs = {} THEN acc
    ELSE LET f == CHOOSE x \in fs : TRUE
         IN  SumOver(parser, fs \ {f}, acc + NodeCount(parser, f))

\* The number of nodes the parser at position p makes of the tree.
StrategyNodeCount(p) ==
    SumOver(parsers_and_extensions[p].parser,
            MatchingFiles(tree, parsers_and_extensions[p].extensions), 0)

RECURSIVE TotalNodeCount(_)
\* The sum of the node counts of the parsers at positions 1..p.
TotalNodeCount(p) ==
    IF p = 0 THEN 0 ELSE TotalNodeCount(p - 1) + StrategyNodeCount(p)

\* The position at which a parser was registered.
ParserPos(parser) ==
    CHOOSE p \in ParserIndices : parsers_and_extensions[p].parser = parser

PhaseRank(ph) ==
    CASE ph = "NotStarted" -> 0
      [] ph = "Connecting" -> 1
      [] ph = "ConnectFailed" -> 2
      [] ph = "Connected" -> 2
      [] ph = "Discovering" -> 3
      [] ph = "Chunking" -> 4
      [] ph = "EmbeddingWriting" -> 5
      [] ph = "Completed" -> 6

---------------------------------------------------------------------------
(* Properties.                                                             *)

\* C1: every ingestion call ends by returning a tally with
\* successful + failed equal to the number of chunks submitted ({0, 0} for
\* an empty chunk list), whatever the outcomes of embedding and writing
\* (stated here for the calls that got their store, so that a fatal
\* connection failure is not what refutes it).
C1_TallyAccountsForEveryChunk ==
    (IngestEnded /\ connectResult = "store") =>
        /\ ingestResult = "returned"
        /\ reported.successful + reported.failed = Len(nodes)

\* C2: if the index check or creation fails (the store cannot be created,
\* for a reason other than a connection timeout), ingestion of N chunks ends
\* with the tally {successful: 0, failed: N}, and no embedding call and no
\* write is made.
C2_IndexFailureTalliesAllFailed ==
    (connectResult = "error" /\ IngestEnded) =>
        /\ ingestResult = "returned"
        /\ reported = [successful |-> 0, failed |-> TotalNodeCount(NumParsers)]
        /\ embedCalls = 0
        /\ writeCalls = 0

\* C3: a chunk whose embedding fails is counted failed and left out of the
\* write, the rest of the batch is still embedded and written, and with a
\* successful write the tally is {n - k, k}.
C3_EmbeddingFailureExcludedRestWritten ==
    (IngestEnded /\ embedFailedAt # 0) =>
        /\ ingestResult = "returned"
        /\ embedCalls = Len(nodes)
        /\ Len(nodes) > 1 => writeCalls >= 1
        /\ reported.failed >= 1
        /\ reported.successful + reported.failed = Len(nodes)

\* C4: ingestion never raises because an embedding or a batch write failed;
\* it raises only when the store could not be set up.
C4_RaisesOnlyForFatalFailures ==
    ingestResult = "raised" => StoreCreationFailed

\* C5: connect makes at most connection_retries attempts, sleeps the fixed
\* connection_retry_delay after each timed-out attempt (so between any two
\* consecutive attempts), makes no attempt after the one that succeeded, and
\* raises ElasticsearchConnectorError exactly when all connection_retries
\* attempts timed out.
C5_ConnectRetryPolicy ==
    /\ [](/\ attempts <= connection_retries
          /\ slept = timeouts * connection_retry_delay
          /\ attempts >= 1 => slept >= (attempts - 1) * connection_retry_delay
          /\ connectResult = "store" =>
                (attempts = timeouts + 1 /\ vector_store = "store")
          /\ connectResult = "exhausted" <=>
                (connectResult # "none" /\ timeouts = connection_retries))
    /\ [][connectResult # "none" =>
            (attempts' = attempts /\ slept' = slept)]_vars

\* C5 witness: the store was created on a retry, after a timed-out attempt.
C5_Witness ==
    /\ connectResult = "store"
    /\ timeouts >= 1
    /\ slept >= connection_retry_delay

\* C6: every client opened during a run is closed when the run has ended,
\* also when the connection retries ran out and no store was created.
C6_OpenedClientClosedAtEnd ==
    RunEnded => (clientOpen => clientClosed)

\* The guards of the phases: nothing is discovered or chunked before the
\* store is connected, nothing is embedded or written before chunking has
\* finished, and a failed connection leads to no discovery.
PhaseGuards ==
    /\ (\E p \in ParserIndices : globRuns[p] > 0 \/ chunkRuns[p] > 0)
          => connectResult = "store"
    /\ nodes # << >> => connectResult = "store"
    /\ (embedCalls > 0 \/ writeCalls > 0) => ParseFinished
    /\ StoreCreationFailed =>
          /\ \A p \in ParserIndices : globRuns[p] = 0 /\ chunkRuns[p] = 0
          /\ nodes = << >>
          /\ embedCalls = 0

C9_CloneThenIngestCompletes ==
    ~update_repo =>
        /\ (pc # "run_repo" /\ pathExists /\ ~force_reclone)
              => repo_path = "local"
        /\ (phase # "NotStarted" \/ IngestEnded) => repo_path = "local"
        /\ (RunEnded /\ exitStatus = 1) =>
              exception \in {"GitHubConnectorError",
                             "ElasticsearchConnectorError", "StoreError"}

\* C10: parse_documents returns the outputs of the registered strategies
\* concatenated in registration order, each strategy run once over every
\* file matching its extensions, nothing merged or dropped: the number of
\* nodes is the sum of the per-strategy node counts.
C10_StrategyOutputsConcatenated ==
    ParseFinished =>
        /\ Len(nodes) = TotalNodeCount(NumParsers)
        /\ \A i, j \in 1..Len(nodes) :
              i < j => ParserPos(nodes[i].parser) <= ParserPos(nodes[j].parser)
        /\ \A p \in ParserIndices :
              LET pe == parsers_and_extensions[p]
                  fs == MatchingFiles(tree, pe.extensions)
              IN  /\ chunkRuns[p] = IF fs = {} THEN 0 ELSE 1
                  /\ \A f \in fs :
                        \A k \in 0..(NodeCount(pe.parser, f) - 1) :
                           Cardinality({i \in 1..Len(nodes) :
                              nodes[i] = [file |-> f, parser |-> pe.parser,
                                          seq |-> k]}) = 1

\* C10 witness: two markdown files, chunked by both strategies.
C10_Witness ==
    /\ ParseFinished
    /\ {"a.md", "b.md"} \subseteq tree
    /\ \E i, j \in 1..Len(nodes) :
          /\ nodes[i].file = nodes[j].file
          /\ nodes[i].parser # nodes[j].parser
    /\ Len(nodes) > StrategyNodeCount(1)

\* C11: the chunking phase produces no chunk from a file whose extension is
\* not registered with a strategy: every node parse_documents holds comes
\* from a file whose extension is in the extension list of the strategy
\* that produced it.
C11_NodesOnlyFromRegisteredExtensions ==
    \A i \in 1..Len(nodes) :
       \E p \in ParserIndices :
          /\ parsers_and_extensions[p].parser = nodes[i].parser
          /\ Ext(nodes[i].file) \in parsers_and_extensions[p].extensions

\* C11 witness: parse_documents has returned nodes for a tree that also
\* holds a file with an unregistered extension.
C11_Witness ==
    /\ ParseFinished
    /\ "c.png" \in tree
    /\ "a.md" \in tree
    /\ Len(nodes) > 0

---------------------------------------------------------------------------
(* Properties of extract_code_files.                                       *)

\* The paths of the list being built.
CodeFileSet == {code_files[i] : i \in 1..Len(code_files)}

\* The call of extract_code_files has ended.
WalkEnded == walkPc \in {"returned", "raised"}

\* read_file_content gives the content of the file.
Readable(path) == ReadFileContent(readOutcomes[path]) = "content"

\* The supported files outside the directories named in skip_directories.
EligibleFiles ==
    {p \in AllFilePaths : ~UnderSkippedDirectory(p) /\ IsFileSupported(p)}

\* C12: extract_code_files never reads and never returns a file located
\* under a directory whose name is in the skip set, at any depth below the
\* root: such directories are pruned from the walk, os.walk never yields
\* them or anything below them.
C12_SkippedDirectoriesPruned ==
    /\ \A p \in readCalls : ~UnderSkippedDirectory(p)
    /\ \A p \in CodeFileSet : ~UnderSkippedDirectory(p)
    /\ \A d \in walked : \A i \in 1..Len(d) : d[i] \notin skip_directories

\* C12 witness: a call has returned files after walking src, which holds
\* the skipped directory build with a supported file in it, and the root,
\* which holds .git with supported files at two depths.
C12_Witness ==
    /\ walkPc = "returned"
    /\ Len(code_files) > 0
    /\ {d \in DOMAIN RepoTree : Len(d) = 1 /\ RepoTree[d].dirs # {}}
          \cap walked # {}
    /\ \E p, q \in AllFilePaths :
          /\ Len(p) = 2 /\ Len(q) = 3
          /\ UnderSkippedDirectory(p) /\ IsFileSupported(p)
          /\ UnderSkippedDirectory(q) /\ IsFileSupported(q)
          /\ q[2] \in skip_directories

\* C13: extract_code_files returns each supported, readable file outside
\* the skipped directories exactly once, whatever the order in which
\* os.walk lists the directories and files, and a repeated call on the
\* unchanged tree returns the same set.
C13_EachReadableFileOnce ==
    WalkEnded =>
        /\ walkPc = "returned"
        /\ CodeFileSet = {p \in EligibleFiles : Readable(p)}
        /\ \A i, j \in 1..Len(code_files) :
              code_files[i] = code_files[j] => i = j
        /\ Cardinality(returnedSets) <= 1

\* C15: reading a file is a local, non-fatal failure: whatever the outcomes
\* of the utf-8 attempt and of the fallback attempts, read_file_content
\* returns the content or None and never raises, and extract_code_files
\* leaves a file that returned None out and goes on with the other files.
C15_ReadFailureIsLocal ==
    /\ \A p \in readCalls :
          ReadFileContent(readOutcomes[p]) \in {"content", "none"}
    /\ walkPc # "raised"
    /\ walkPc = "returned" =>
          /\ readCalls = EligibleFiles
          /\ CodeFileSet = {p \in readCalls : Readable(p)}

---------------------------------------------------------------------------
(* GitHubConnector.is_file_supported, called on one path.                  *)

\* The paths is_file_supported is checked on.
SupportInputs ==
    {PathJoin(d, n) : d \in DirectoryParts, n \in FileNames}

SupportInit ==
    /\ checkedPath \in SupportInputs
    /\ is_supported = "unchecked"

\* lines 227-230
CheckFileSupported ==
    /\ is_supported = "unchecked"
    /\ is_supported' = IF IsFileSupported(checkedPath) THEN "supported"
                       ELSE "unsupported"
    /\ UNCHANGED checkedPath
    /\ UNCHANGED notSupportVars

SupportNext == CheckFileSupported

SupportStart ==
    /\ RunIdle
    /\ WalkIdle
    /\ SupportInit
    /\ MetaIdle
    /\ ConfigIdle
    /\ ConnIdle
    /\ UrlIdle
    /\ RepoIdle

SupportSpec == SupportStart /\ [][SupportNext]_vars

\* The two characters are the same letter, in whatever case.
SameLetter(a, b) ==
    \/ a = b
    \/ \E k \in 1..Len(UpperLetters) :
          {a, b} = {UpperLetters[k], LowerLetters[k]}

\* The two names differ at most in the case of their letters.
SameLetters(s, t) ==
    /\ Len(s) = Len(t)
    /\ \A i \in 1..Len(s) : SameLetter(s[i], t[i])

\* The name ends, after at least one other character, with the extension
\* ext written in whatever case.
EndsWithExtension(name, ext) ==
    /\ Len(name) > Len(ext)
    /\ SameLetters(SubSeq(name, Len(name) - Len(ext) + 1, Len(name)), ext)

\* C14: is_file_supported(path) is true exactly when the final suffix of
\* the path's file name, lowercased, is in the supported extension set: a
\* name without a suffix is never supported, and the answer depends neither
\* on the case of the suffix nor on the directory part of the path.
C14_SupportedIffSuffixInSet ==
    is_supported # "unchecked" =>
        LET name == PathName(checkedPath)
            answer == (is_supported = "supported")
        IN  /\ answer <=> \E ext \in supported_extensions :
                             EndsWithExtension(name, ext)
            /\ (\A i \in 1..Len(name) : name[i] # ".") => ~answer
            /\ (name[1] = "." /\ \A i \in 2..Len(name) : name[i] # ".")
                  => ~answer
            /\ name[Len(name)] = "." => ~answer
            /\ \A n \in FileNames :
                  SameLetters(n, name) =>
                     \A d \in DirectoryParts :
                        IsFileSupported(PathJoin(d, n)) <=> answer

\* C14 witness: a path with a directory part whose name ends in a suffix
\* written with an upper-case letter is found supported.
C14_Witness ==
    /\ is_supported = "supported"
    /\ Len(checkedPath) > 1
    /\ \E i \in 1..Len(PathName(checkedPath)) :
          \E k \in 1..Len(UpperLetters) :
             PathName(checkedPath)[i] = UpperLetters[k]
    /\ \E ext \in supported_extensions :
          /\ EndsWithExtension(PathName(checkedPath), ext)
          /\ SubSeq(PathName(checkedPath),
                    Len(PathName(checkedPath)) - Len(ext) + 1,
                    Len(PathName(checkedPath))) # ext

---------------------------------------------------------------------------
(* index.py: add_extra_metadata, called on one document.                   *)

\* The document as a loader may hand it over: any of the loader's keys,
\* the file name under file_name.
MetaInit ==
    /\ \E keys \in SUBSET LoaderKeys, name \in FileNames,
          type \in LoaderTypes :
          loaded = [key \in keys |->
                      CASE key = "file_name" -> name
                        [] key = "type" -> type
                        [] OTHER -> "value"]
    /\ metadata = loaded
    /\ enrichCalls = 0

\* lines 84-117, the loop body for the document.
AddMetadata ==
    /\ enrichCalls < MaxEnrichCalls
    /\ metadata' = AddExtraMetadata(metadata)
    /\ enrichCalls' = enrichCalls + 1
    /\ UNCHANGED loaded
    /\ UNCHANGED notMetaVars

MetaNext == AddMetadata

MetaStart ==
    /\ RunIdle
    /\ WalkIdle
    /\ SupportIdle
    /\ MetaInit
    /\ ConfigIdle
    /\ ConnIdle
    /\ UrlIdle
    /\ RepoIdle

MetaSpec == MetaStart /\ [][MetaNext]_vars

\* The file name the loader gave the document, empty when it gave none.
LoadedFileName ==
    IF "file_name" \in DOMAIN loaded THEN loaded["file_name"] ELSE << >>

\* C16, as stated: after add_extra_metadata the metadata of the document
\* has exactly the keys file_name, file_path and type, whatever keys the
\* loader supplied.
C16_ExactlyAllowListedKeys ==
    enrichCalls > 0 => DOMAIN metadata = {"file_name", "file_path", "type"}

\* C16, amended: after add_extra_metadata the metadata has no key outside
\* file_name, file_path and type, whatever keys the loader supplied; it
\* always has type, and it has file_name and file_path exactly when the
\* loader supplied them, with the values the loader gave.
C16_OnlyAllowListedKeys ==
    enrichCalls > 0 =>
        /\ DOMAIN metadata =
              (DOMAIN loaded \cap {"file_name", "file_path"}) \cup {"type"}
        /\ \A key \in DOMAIN loaded \cap {"file_name", "file_path"} :
              metadata[key] = loaded[key]

\* C16 witness: a document that came with file_name, type and file_size but
\* without file_path has been enriched.
C16_Witness ==
    /\ enrichCalls > 0
    /\ DOMAIN loaded = {"file_name", "type", "file_size"}
    /\ DOMAIN metadata = {"file_name", "type"}

\* C17: after add_extra_metadata, type is "test" for a document whose file
\* name contains "test" in any letter case, whatever its extension and its
\* earlier type; for every other document it is what the extension table
\* gives for the text after the last dot of the file name.
C17_TestOverridesExtensionType ==
    enrichCalls > 0 =>
        LET name == LoadedFileName
            afterLastDot == SubSeq(name, RFindDot(name) + 1, Len(name))
        IN  metadata["type"] =
               IF \E i \in 1..(Len(name) - 3) :
                     SameLetters(SubSeq(name, i, i + 3),
                                 <<"t", "e", "s", "t">>)
               THEN "test"
               ELSE TypeOfExtension(Lower(afterLastDot))

\* C17 witness: a document named TeSt.go that came with another type has
\* been enriched and is typed test.
C17_Witness ==
    /\ enrichCalls > 0
    /\ "type" \in DOMAIN loaded
    /\ loaded["type"] = "custom"
    /\ LoadedFileName = <<"T", "e", "S", "t", ".", "g", "o">>
    /\ metadata["type"] = "test"

---------------------------------------------------------------------------
(* main: the parser settings from the environment to the first parse.      *)

ConfigInit ==
    /\ envChunkSize \in {Unset} \cup 1..MaxEnvChunk
    /\ envChunkOverlap \in {Unset} \cup 0..MaxEnvChunk
    /\ cfgPc = "load_config"
    /\ parser_config = DefaultParserConfig
    /\ processorConfig = DefaultParserConfig

\* main.py line 118, config.py lines 164-178 and 108-119: load_config
\* returns the AppConfig; create_parser_config has no check to fail.
LoadConfig ==
    /\ cfgPc = "load_config"
    /\ parser_config' = CreateParserConfig(envChunkSize, envChunkOverlap)
    /\ cfgPc' = "connector"
    /\ UNCHANGED << envChunkSize, envChunkOverlap, processorConfig >>
    /\ UNCHANGED notConfigVars

\* main.py lines 121-125, elasticsearch_connector.py lines 258 and 69: the
\* connector builds DocumentProcessor() without a parser configuration.
ConstructPipeline ==
    /\ cfgPc = "connector"
    /\ processorConfig' = DefaultParserConfig
    /\ cfgPc' = "parse_documents"
    /\ UNCHANGED << envChunkSize, envChunkOverlap, parser_config >>
    /\ UNCHANGED notConfigVars

\* main.py line 137, elasticsearch_connector.py lines 107-112:
\* parse_documents looks the files up.
DiscoverFiles ==
    /\ cfgPc = "parse_documents"
    /\ cfgPc' = "parsed"
    /\ UNCHANGED << envChunkSize, envChunkOverlap, parser_config,
                    processorConfig >>
    /\ UNCHANGED notConfigVars

ConfigNext ==
    \/ LoadConfig
    \/ ConstructPipeline
    \/ DiscoverFiles

ConfigStart ==
    /\ RunIdle
    /\ WalkIdle
    /\ SupportIdle
    /\ MetaIdle
    /\ ConfigInit
    /\ ConnIdle
    /\ UrlIdle
    /\ RepoIdle

ConfigSpec == ConfigStart /\ [][ConfigNext]_vars

\* C18: a parser configuration in which chunk_overlap is not strictly less
\* than chunk_size is rejected when the configuration is created: the
\* program does not get past load_config with it, so no connector is built
\* and no file is discovered or processed.
C18_InvalidOverlapRejected ==
    EnvInt(envChunkOverlap, chunk_overlap) >= EnvInt(envChunkSize, chunk_size)
        => cfgPc = "load_config"

---------------------------------------------------------------------------
(* Further properties of add_extra_metadata.                               *)

\* C27: add_extra_metadata is idempotent: a second application leaves the
\* metadata of the document, its key set and its type, as the first
\* application left it.
C27_AddExtraMetadataIdempotent ==
    /\ enrichCalls >= 1 => AddExtraMetadata(metadata) = metadata
    /\ enrichCalls >= 1 => metadata = AddExtraMetadata(loaded)

\* C27 witness: add_extra_metadata has been applied twice to a document
\* that came with a key to strip and a file name the table knows.
C27_Witness ==
    /\ enrichCalls = 2
    /\ "file_size" \in DOMAIN loaded
    /\ "file_name" \in DOMAIN loaded
    /\ metadata["type"] = "go"

---------------------------------------------------------------------------
(* Further properties of the parser settings.                              *)

\* C29: the chunk_size and chunk_overlap the chunker of a pipeline run
\* splits with are those of the parser configuration load_config made from
\* PARSER_CHUNK_SIZE and PARSER_CHUNK_OVERLAP, not the built-in defaults.
C29_ChunkerUsesLoadedConfig ==
    cfgPc \in {"parse_documents", "parsed"} =>
        processorConfig = parser_config

---------------------------------------------------------------------------
(* One ElasticsearchConnector under any sequence of connect,               *)
(* process_and_ingest_documents and close calls.                           *)

\* An except clause that also catches the other errors.
RetryEveryError == {"timeout", "error"}

\* connect, line 310: the outcomes of a store creation the loop goes on
\* after.
RetriedOutcomes == {"timeout"}

\* get_store_info, line 369: 'connected'.
Connected(store) == store # NoStore

ConnInit ==
    /\ connRetries \in 0..MaxConnRetries
    /\ connStore = NoStore
    /\ storeClosed = FALSE
    /\ connPc = "idle"
    /\ connCaller = "user"
    /\ connAttempt = 0
    /\ connCalls = 0
    /\ storeBefore = NoStore
    /\ lastConnect = "none"
    /\ lastOutcome = "none"
    /\ created = FALSE
    /\ usedClosed = FALSE

\* connect is called on the connector, lines 280-300.
CallConnect ==
    /\ connPc = "idle"
    /\ connCalls < MaxConnectorCalls
    /\ connCalls' = connCalls + 1
    /\ connCaller' = "user"
    /\ connAttempt' = 0
    /\ storeBefore' = connStore
    /\ lastOutcome' = "none"
    /\ connPc' = "connect_loop"
    /\ UNCHANGED << connRetries, connStore, storeClosed, lastConnect,
                    created, usedClosed >>
    /\ UNCHANGED notConnVars

\* process_and_ingest_documents is called, lines 330-331: it connects when
\* self.vector_store is not set and goes on to the documents otherwise.
CallProcess ==
    /\ connPc = "idle"
    /\ connCalls < MaxConnectorCalls
    /\ connCalls' = connCalls + 1
    /\ IF NeedsConnect(connStore)
       THEN /\ connCaller' = "process"
            /\ connAttempt' = 0
            /\ storeBefore' = connStore
            /\ lastOutcome' = "none"
            /\ connPc' = "connect_loop"
       ELSE /\ connPc' = "ingest"
            /\ UNCHANGED << connCaller, connAttempt, storeBefore,
                            lastOutcome >>
    /\ UNCHANGED << connRetries, connStore, storeClosed, lastConnect,
                    created, usedClosed >>
    /\ UNCHANGED notConnVars

\* connect, lines 300-312: one store creation attempt.  The store is
\* assigned only when ElasticsearchStore(...) returns; a timeout is slept
\* on and the loop goes on; any other exception leaves connect.
StoreAttempt ==
    /\ connPc = "connect_loop"
    /\ ConnectLoopContinues(connAttempt, connRetries)
    /\ \E outcome \in {"ok", "timeout", "error"} :
          /\ lastOutcome' = outcome
          /\ IF outcome = "ok"
             THEN /\ connStore' = "store"
                  /\ storeClosed' = FALSE
                  /\ created' = TRUE
                  /\ lastConnect' = "ok"
                  /\ connPc' = IF connCaller = "process" THEN "ingest"
                               ELSE "idle"
                  /\ UNCHANGED connAttempt
             ELSE IF outcome \in RetriedOutcomes
             THEN /\ connAttempt' = NextAttempt(connAttempt)
                  /\ UNCHANGED << connStore, storeClosed, created,
                                  lastConnect, connPc >>
             ELSE /\ lastConnect' = "failed"
                  /\ connPc' = "idle"
                  /\ UNCHANGED << connStore, storeClosed, created,
                                  connAttempt >>
    /\ UNCHANGED << connRetries, connCaller, connCalls, storeBefore,
                    usedClosed >>
    /\ UNCHANGED notConnVars

\* connect, lines 314-316: the loop is over without a store.
StoreAttemptsExhausted ==
    /\ connPc = "connect_loop"
    /\ ~ConnectLoopContinues(connAttempt, connRetries)
    /\ lastConnect' = "failed"
    /\ connPc' = "idle"
    /\ UNCHANGED << connRetries, connStore, storeClosed, connCaller,
                    connAttempt, connCalls, storeBefore, lastOutcome,
                    created, usedClosed >>
    /\ UNCHANGED notConnVars

\* process_and_ingest_documents, lines 335-350: the documents are parsed
\* and, when there are nodes, the pipeline is run on self.vector_store.
IngestOnStore ==
    /\ connPc = "ingest"
    /\ \E hasNodes \in BOOLEAN :
          usedClosed' = (usedClosed \/ (hasNodes /\ storeClosed))
    /\ connPc' = "idle"
    /\ UNCHANGED << connRetries, connStore, storeClosed, connCaller,
                    connAttempt, connCalls, storeBefore, lastConnect,
                    lastOutcome, created >>
    /\ UNCHANGED notConnVars

\* close, lines 352-356: the store is closed when there is one;
\* self.vector_store is left as it is.
CallClose ==
    /\ connPc = "idle"
    /\ connCalls < MaxConnectorCalls
    /\ connCalls' = connCalls + 1
    /\ storeClosed' = (storeClosed \/ HasClose(connStore))
    /\ UNCHANGED << connRetries, connStore, connPc, connCaller,
                    connAttempt, storeBefore, lastConnect, lastOutcome,
                    created, usedClosed >>
    /\ UNCHANGED notConnVars

ConnNext ==
    \/ CallConnect
    \/ CallProcess
    \/ StoreAttempt
    \/ StoreAttemptsExhausted
    \/ IngestOnStore
    \/ CallClose

ConnStart ==
    /\ RunIdle
    /\ WalkIdle
    /\ SupportIdle
    /\ MetaIdle
    /\ ConfigIdle
    /\ ConnInit
    /\ UrlIdle
    /\ RepoIdle

ConnSpec == ConnStart /\ [][ConnNext]_vars

\* C28, as stated: only a connection timeout is retried, any other error
\* leaves connect at the attempt it occurs on; vector_store is set exactly
\* when some store creation attempt has succeeded; and after every failed
\* connect get_store_info reports connected = false.
C28_FailedConnectNotConnected ==
    /\ lastOutcome = "error" =>
          connPc # "connect_loop" /\ lastConnect = "failed"
    /\ Connected(connStore) <=> created
    /\ (connPc = "idle" /\ lastConnect = "failed") => ~Connected(connStore)

\* C28, amended: only a connection timeout is retried, any other error
\* leaves connect at the attempt it occurs on; vector_store is set exactly
\* when some store creation attempt has succeeded; a failed connect leaves
\* vector_store as it was, so after it get_store_info reports connected =
\* false unless an earlier connect on the connector succeeded.
C28_FailedConnectKeepsStore ==
    /\ lastOutcome = "error" =>
          connPc # "connect_loop" /\ lastConnect = "failed"
    /\ Connected(connStore) <=> created
    /\ (connPc = "idle" /\ lastConnect = "failed") =>
          /\ connStore = storeBefore
          /\ Connected(connStore) <=> Connected(storeBefore)

\* C28 witness: a connect has failed on an error other than a timeout,
\* after an attempt that timed out, on a connector without a store.
C28_Witness ==
    /\ connPc = "idle"
    /\ lastConnect = "failed"
    /\ lastOutcome = "error"
    /\ connAttempt = 1
    /\ ~Connected(connStore)

\* C30: a connector never uses a closed store: a
\* process_and_ingest_documents call that follows close() connects anew
\* before it ingests, and get_store_info reports connected = false between
\* close() and the next successful connect.
C30_ClosedStoreNeverUsed ==
    /\ ~usedClosed
    /\ (connPc = "idle" /\ storeClosed) => ~Connected(connStore)

---------------------------------------------------------------------------
(* GitHubConnector: validate_github_url and get_repository_name_from_url.  *)
(* A URL is the sequence of its characters.                                *)

HttpsGithub ==
    << "h", "t", "t", "p", "s", ":", "/", "/",
       "g", "i", "t", "h", "u", "b", ".", "c", "o", "m", "/" >>

SshGithub ==
    << "g", "i", "t", "@",
       "g", "i", "t", "h", "u", "b", ".", "c", "o", "m", ":" >>

HttpsGitlab ==
    << "h", "t", "t", "p", "s", ":", "/", "/",
       "g", "i", "t", "l", "a", "b", ".", "c", "o", "m", "/" >>

DotGit == << ".", "g", "i", "t" >>

\* The URLs given to the two methods: a prefix (or none) followed by up to
\* MaxUrlTokens of these pieces.
UrlPrefixes == {<< >>, HttpsGithub, SshGithub, HttpsGitlab}

UrlTokens == {<< "u" >>, << "-" >>, << "/" >>, DotGit, << "\n" >>}

RECURSIVE UrlRests(_)
UrlRests(k) ==
    IF k = 0 THEN {<< >>}
    ELSE {r \o t : r \in UrlRests(k - 1), t \in UrlTokens}

Urls ==
    {prefix \o rest : prefix \in UrlPrefixes,
                      rest \in UNION {UrlRests(k) : k \in 0..MaxUrlTokens}}

Digits == {"0", "1", "2", "3", "4", "5", "6", "7", "8", "9"}

Letters ==
    {LowerLetters[i] : i \in 1..Len(LowerLetters)}
        \cup {UpperLetters[i] : i \in 1..Len(UpperLetters)}

\* \w of a str pattern, on the characters URLs are built from.
WordChars == Letters \cup Digits \cup {"_"}

\* lines 243-244: the class [\w\-\.]
NameClass == WordChars \cup {"-", "."}

(* A pattern is matched from left to right on the set of positions P the   *)
(* match may have got to: position p means the first p characters of s     *)
(* are matched.                                                            *)

\* A literal piece of a pattern.
Literal(s, P, lit) ==
    {p + Len(lit) : p \in {q \in P : /\ q + Len(lit) <= Len(s)
                                     /\ SubSeq(s, q + 1, q + Len(lit)) = lit}}

\* [\w\-\.]+
ClassPlus(s, P) ==
    {q \in 1..Len(s) :
        \E p \in P : p < q /\ \A k \in (p + 1)..q : s[k] \in NameClass}

\* (?:lit)?
Optional(s, P, lit) == P \cup Literal(s, P, lit)

\* $ of a pattern without re.MULTILINE: the end of the string, or the
\* position before a newline that ends the string.
AtEnd(s, P) ==
    \E p \in P : \/ p = Len(s)
                 \/ p = Len(s) - 1 /\ s[Len(s)] = "\n"

\* line 243: ^https://github\.com/[\w\-\.]+/[\w\-\.]+(?:\.git)?/?$
HttpsPattern(s) ==
    LET owner == ClassPlus(s, Literal(s, {0}, HttpsGithub))
        repo  == ClassPlus(s, Literal(s, owner, << "/" >>))
    IN  AtEnd(s, Optional(s, Optional(s, repo, DotGit), << "/" >>))

\* line 244: ^git@github\.com:[\w\-\.]+/[\w\-\.]+\.git$
SshPattern(s) ==
    LET owner == ClassPlus(s, Literal(s, {0}, SshGithub))
        repo  == ClassPlus(s, Literal(s, owner, << "/" >>))
    IN  AtEnd(s, Literal(s, repo, DotGit))

\* validate_github_url, lines 236-247.
ValidateGithubUrl(u) ==
    IF u = << >> THEN FALSE
    ELSE HttpsPattern(u) \/ SshPattern(u)

StartsWith(s, lit) ==
    Len(s) >= Len(lit) /\ SubSeq(s, 1, Len(lit)) = lit

EndsWith(s, lit) ==
    Len(s) >= Len(lit) /\ SubSeq(s, Len(s) - Len(lit) + 1, Len(s)) = lit

RECURSIVE SplitOn(_, _, _, _, _)
\* str.split(sep) for a separator of one character, scanning s from
\* position k on.
SplitOn(s, sep, k, part, parts) ==
    IF k > Len(s) THEN Append(parts, part)
    ELSE IF s[k] = sep
         THEN SplitOn(s, sep, k + 1, << >>, Append(parts, part))
         ELSE SplitOn(s, sep, k + 1, Append(part, s[k]), parts)

\* str.lstrip(c)
LStrip(s, c) ==
    LET kept == {k \in 1..Len(s) : s[k] # c}
    IN  IF kept = {} THEN << >>
        ELSE SubSeq(s, CHOOSE k \in kept : \A j \in kept : k <= j, Len(s))

\* The characters of a URL scheme (urllib.parse.scheme_chars).
SchemeChars == Letters \cup Digits \cup {"+", "-", "."}

\* urlparse(url).path, line 258: tabs and newlines are removed, a scheme
\* and a //netloc are split off and what is left is the path.
UrlParsePath(u) ==
    LET IsUnsafe(c) == c \in {"\t", "\r", "\n"}
        clean  == SelectSeq(u, LAMBDA c : ~IsUnsafe(c))
        colons == {k \in 1..Len(clean) : clean[k] = ":"}
        colon  == IF colons = {} THEN 0
                  ELSE CHOOSE k \in colons : \A j \in colons : k <= j
        scheme == /\ colon > 1
                  /\ clean[1] \in Letters
                  /\ \A k \in 1..(colon - 1) : clean[k] \in SchemeChars
        rest   == IF scheme THEN SubSeq(clean, colon + 1, Len(clean))
                  ELSE clean
        slashes == {k \in 3..Len(rest) : rest[k] = "/"}
    IN  IF StartsWith(rest, << "/", "/" >>)
        THEN IF slashes = {} THEN << >>
             ELSE SubSeq(rest,
                         CHOOSE k \in slashes : \A j \in slashes : k <= j,
                         Len(rest))
        ELSE rest

\* get_repository_name_from_url, lines 249-264.  A URL that starts with
\* git@ and holds no colon makes url.split(':')[1] raise IndexError.
GetRepositoryNameFromUrl(u) ==
    LET by_colon  == SplitOn(u, ":", 1, << >>, << >>)
        repo_part == IF StartsWith(u, << "g", "i", "t", "@" >>)
                     THEN by_colon[2]
                     ELSE LStrip(UrlParsePath(u), "/")
        no_suffix == IF EndsWith(repo_part, DotGit)
                     THEN SubSeq(repo_part, 1, Len(repo_part) - 4)
                     ELSE repo_part
        by_slash  == SplitOn(no_suffix, "/", 1, << >>, << >>)
    IN  IF StartsWith(u, << "g", "i", "t", "@" >>) /\ Len(by_colon) < 2
        THEN << "IndexError" >>
        ELSE by_slash[Len(by_slash)]

UrlInit ==
    /\ url \in Urls
    /\ urlPc = "given"
    /\ url_valid = FALSE
    /\ repo_name = << >>

\* validate_github_url(url) is called.
CallValidateGithubUrl ==
    /\ urlPc = "given"
    /\ url_valid' = ValidateGithubUrl(url)
    /\ urlPc' = "validated"
    /\ UNCHANGED << url, repo_name >>
    /\ UNCHANGED notUrlVars

\* get_repository_name_from_url(url) is called.
CallGetRepositoryNameFromUrl ==
    /\ urlPc = "validated"
    /\ repo_name' = GetRepositoryNameFromUrl(url)
    /\ urlPc' = "named"
    /\ UNCHANGED << url, url_valid >>
    /\ UNCHANGED notUrlVars

UrlNext ==
    \/ CallValidateGithubUrl
    \/ CallGetRepositoryNameFromUrl

UrlStart ==
    /\ RunIdle
    /\ WalkIdle
    /\ SupportIdle
    /\ MetaIdle
    /\ ConfigIdle
    /\ ConnIdle
    /\ UrlInit
    /\ RepoIdle

UrlSpec == UrlStart /\ [][UrlNext]_vars

\* A non-empty name of word characters, '-' and '.'.
IsName(s) == s # << >> /\ \A k \in 1..Len(s) : s[k] \in NameClass

\* The <owner>/<repo> pairs after which u is prefix, owner, "/", repo and
\* tail.
OwnerRepoPairs(u, prefix, tail) ==
    LET from == Len(prefix) + 1
        to   == Len(u) - Len(tail)
        body == SubSeq(u, from, to)
    IN  IF ~StartsWith(u, prefix) \/ ~EndsWith(u, tail) \/ to < from
        THEN {}
        ELSE {<< SubSeq(body, 1, k - 1), SubSeq(body, k + 1, Len(body)) >> :
                 k \in {j \in 1..Len(body) :
                           /\ body[j] = "/"
                           /\ IsName(SubSeq(body, 1, j - 1))
                           /\ IsName(SubSeq(body, j + 1, Len(body)))}}

\* The readings of u as https://github.com/<owner>/<repo>, optionally
\* followed by .git and by one trailing slash, with <repo> as the segment
\* before the .git suffix.
HttpsReadings(u) ==
    UNION {OwnerRepoPairs(u, HttpsGithub, tail) :
              tail \in {<< >>, << "/" >>, DotGit, DotGit \o << "/" >>}}

\* The readings of u as git@github.com:<owner>/<repo>.git
SshReadings(u) == OwnerRepoPairs(u, SshGithub, DotGit)

\* A name without its .git suffix.
WithoutDotGit(name) ==
    IF EndsWith(name, DotGit) THEN SubSeq(name, 1, Len(name) - 4) ELSE name

\* C24: validate_github_url accepts exactly the URLs of the form
\* https://github.com/<owner>/<repo> (optionally followed by .git and by one
\* trailing slash) and git@github.com:<owner>/<repo>.git, with owner and
\* repo non-empty names of word characters, '-' and '.'; the empty string,
\* other hosts and URLs with further path segments are rejected.
C24_AcceptsExactlyRepositoryUrls ==
    urlPc # "given" =>
        (url_valid <=> (HttpsReadings(url) \cup SshReadings(url)) # {})

\* C25: for every URL validate_github_url accepts,
\* get_repository_name_from_url returns the non-empty repository name: the
\* <repo> segment without the .git suffix.
C25_NameOfAcceptedUrl ==
    (urlPc = "named" /\ url_valid) =>
        /\ repo_name # << >>
        /\ \E reading \in HttpsReadings(url) \cup SshReadings(url) :
              repo_name \in {reading[2], WithoutDotGit(reading[2])}

---------------------------------------------------------------------------
(* GitHubConnector: clone_repository(repo_url, local_path),                *)
(* process_repository, update_repository and _clone_with_retry on one      *)
(* local path.                                                             *)

\* A clone that does not look at the local path first.
CloneFromAlways(exists) == TRUE

\* clone_repository, lines 277-279: git.Repo.clone_from is reached only
\* when local_path does not exist.
CloneFromRuns(exists) == ~exists

\* clone_repository(repo_url, local_path), lines 266-291, with outcome how
\* git.Repo.clone_from goes when it is called: both except clauses return
\* False.
CloneByUrl(exists, outcome) ==
    IF ~CloneFromRuns(exists)
    THEN [result |-> "False", steps |-> << "exists" >>, outcome |-> "none"]
    ELSE [result  |-> IF outcome = "ok" THEN "True" ELSE "False",
          steps   |-> << "exists", "clone_from" >>,
          outcome |-> outcome]

\* Whether the local path exists after a clone that went as outcome says;
\* a failed clone may leave a directory behind.
ExistsAfterClone(exists, outcome, leftover) ==
    IF outcome = "none" THEN exists
    ELSE IF outcome = "ok" THEN TRUE
    ELSE exists \/ leftover

\* An extraction that does not depend on the clone.
ExtractAlways(cloned) == TRUE

\* process_repository, lines 372-374: the files are extracted only when
\* clone_repository returned True.
ExtractRuns(cloned) == cloned = "True"

\* The URLs process_repository is called with.
ProcessUrls ==
    { << >>,
      HttpsGitlab \o << "u", "/", "u" >>,
      HttpsGithub \o << "u", "/", "u" >>,
      SshGithub \o << "u", "/", "u" >> \o DotGit }

\* What a caller of clone_repository gets from the outcome r of the call.
ResultOf(r) ==
    IF r.kind = "raised" THEN r.exc
    ELSE IF r.kind = "returned" THEN "path"
    ELSE "bool"

\* _clone_with_retry, line 155: for attempt in range(max_retries)
RetryLoopContinues(a, retries) == a < retries

\* _clone_with_retry, line 171: the failed attempt is not the last one.
SleepsBeforeRetry(a, retries) == a < retries - 1

RepoInit ==
    /\ localExists \in BOOLEAN
    /\ max_retries \in 0..MaxCloneRetries
    /\ repoOp = "none"
    /\ repoPc = "idle"
    /\ repoResult = "none"
    /\ repoSteps = << >>
    /\ existedBefore = FALSE
    /\ cloneOutcome = "none"
    /\ extractOutcome = "none"
    /\ urlArg = << >>
    /\ cloneAttempt = 0
    /\ repoCalls = 0

\* clone_repository(repo_url, local_path) is called, lines 266-291.  The
\* name is bound to this definition, the later of the two in the class.
CallCloneRepository ==
    /\ repoPc = "idle"
    /\ repoCalls < MaxRepoCalls
    /\ CallBinds(ResolveMethod("clone_repository"),
                 {"repo_url", "local_path"})
    /\ \E outcome \in {"ok", "GitCommandError", "Exception"},
          leftover \in BOOLEAN :
          LET r == CloneByUrl(localExists, outcome)
          IN  /\ repoResult' = r.result
              /\ repoSteps' = r.steps
              /\ cloneOutcome' = r.outcome
              /\ localExists' =
                     ExistsAfterClone(localExists, r.outcome, leftover)
    /\ repoOp' = "clone_repository"
    /\ existedBefore' = localExists
    /\ extractOutcome' = "none"
    /\ repoCalls' = repoCalls + 1
    /\ UNCHANGED << max_retries, repoPc, urlArg, cloneAttempt >>
    /\ UNCHANGED notRepoVars

\* process_repository(repo_url, local_path) is called, lines 350-377.
CallProcessRepository ==
    /\ repoPc = "idle"
    /\ repoCalls < MaxRepoCalls
    /\ CallBinds(ResolveMethod("clone_repository"),
                 {"repo_url", "local_path"})
    /\ \E repo_url \in ProcessUrls,
          outcome \in {"ok", "GitCommandError", "Exception"},
          leftover \in BOOLEAN,
          extracted \in {"code_files", "raised"} :
          LET r == CloneByUrl(localExists, outcome)
          IN  /\ urlArg' = repo_url
              /\ IF ~ValidateGithubUrl(repo_url)
                 THEN /\ repoResult' = "[]"
                      /\ repoSteps' = << "validate_github_url" >>
                      /\ cloneOutcome' = "none"
                      /\ extractOutcome' = "none"
                      /\ UNCHANGED localExists
                 ELSE /\ cloneOutcome' = r.outcome
                      /\ localExists' =
                            ExistsAfterClone(localExists, r.outcome, leftover)
                      /\ IF ~ExtractRuns(r.result)
                         THEN /\ repoResult' = "[]"
                              /\ repoSteps' =
                                    << "validate_github_url" >> \o r.steps
                              /\ extractOutcome' = "none"
                         ELSE /\ repoResult' = extracted
                              /\ repoSteps' =
                                    << "validate_github_url" >> \o r.steps
                                        \o << "extract_code_files" >>
                              /\ extractOutcome' = extracted
    /\ repoOp' = "process_repository"
    /\ existedBefore' = localExists
    /\ repoCalls' = repoCalls + 1
    /\ UNCHANGED << max_retries, repoPc, cloneAttempt >>
    /\ UNCHANGED notRepoVars

\* update_repository() is called, lines 181-205.  Its two calls of
\* self.clone_repository go to the definition the name is bound to.
CallUpdateRepository ==
    /\ repoPc = "idle"
    /\ repoCalls < MaxRepoCalls
    /\ \E pull \in {"ok", "CalledProcessError"} :
          IF localExists /\ pull = "ok"
          THEN /\ repoResult' = "path"
               /\ repoSteps' = << "exists", "pull_ok" >>
               /\ UNCHANGED localExists
          ELSE LET force  == localExists
                   kwargs == IF force THEN {"force_reclone"} ELSE {}
                   before == IF force THEN << "exists", "pull_failed" >>
                             ELSE << "exists" >>
               IN  \E r \in CloneRepositoryCall(kwargs, localExists, force) :
                      /\ repoResult' = ResultOf(r)
                      /\ repoSteps' =
                            before \o << "clone_repository" >>
                               \o (IF r.kind # "returned" THEN << >>
                                   ELSE IF force THEN << "rmtree", "clone" >>
                                   ELSE << "clone" >>)
                      /\ localExists' =
                            IF r.kind = "returned" THEN TRUE ELSE localExists
    /\ repoOp' = "update_repository"
    /\ existedBefore' = localExists
    /\ cloneOutcome' = "none"
    /\ extractOutcome' = "none"
    /\ repoCalls' = repoCalls + 1
    /\ UNCHANGED << max_retries, repoPc, urlArg, cloneAttempt >>
    /\ UNCHANGED notRepoVars

\* _clone_with_retry(clone_url, local_repo_path) is called, line 142.
CallCloneWithRetry ==
    /\ repoPc = "idle"
    /\ repoCalls < MaxRepoCalls
    /\ repoPc' = "retry_loop"
    /\ repoOp' = "_clone_with_retry"
    /\ repoResult' = "none"
    /\ repoSteps' = << >>
    /\ existedBefore' = localExists
    /\ cloneOutcome' = "none"
    /\ extractOutcome' = "none"
    /\ cloneAttempt' = 0
    /\ repoCalls' = repoCalls + 1
    /\ UNCHANGED << localExists, max_retries, urlArg >>
    /\ UNCHANGED notRepoVars

\* _clone_with_retry, lines 155-179: one turn of the loop.  makedirs
\* creates the local path, git clone runs; a CalledProcessError is slept
\* on when another attempt follows and raised as GitHubConnectorError
\* otherwise.
CloneAttempt ==
    /\ repoPc = "retry_loop"
    /\ RetryLoopContinues(cloneAttempt, max_retries)
    /\ localExists' = TRUE
    /\ \E outcome \in {"ok", "CalledProcessError"} :
          /\ cloneOutcome' = outcome
          /\ IF outcome = "ok"
             THEN /\ repoSteps' = Append(repoSteps, "git_clone")
                  /\ repoResult' = "path"
                  /\ repoPc' = "idle"
                  /\ UNCHANGED cloneAttempt
             ELSE IF SleepsBeforeRetry(cloneAttempt, max_retries)
             THEN /\ repoSteps' = repoSteps \o << "git_clone", "sleep" >>
                  /\ cloneAttempt' = cloneAttempt + 1
                  /\ UNCHANGED << repoResult, repoPc >>
             ELSE /\ repoSteps' = Append(repoSteps, "git_clone")
                  /\ repoResult' = "GitHubConnectorError"
                  /\ repoPc' = "idle"
                  /\ UNCHANGED cloneAttempt
    /\ UNCHANGED << max_retries, repoOp, existedBefore, extractOutcome,
                    urlArg, repoCalls >>
    /\ UNCHANGED notRepoVars

\* _clone_with_retry, after line 179: the loop is over and the function
\* ends without a return statement.
RetryLoopEnds ==
    /\ repoPc = "retry_loop"
    /\ ~RetryLoopContinues(cloneAttempt, max_retries)
    /\ repoResult' = "None"
    /\ repoPc' = "idle"
    /\ UNCHANGED << localExists, max_retries, repoOp, repoSteps,
                    existedBefore, cloneOutcome, extractOutcome, urlArg,
                    cloneAttempt, repoCalls >>
    /\ UNCHANGED notRepoVars

RepoNext ==
    \/ CallCloneRepository
    \/ CallProcessRepository
    \/ CallUpdateRepository
    \/ CallCloneWithRetry
    \/ CloneAttempt
    \/ RetryLoopEnds

RepoStart ==
    /\ RunIdle
    /\ WalkIdle
    /\ SupportIdle
    /\ MetaIdle
    /\ ConfigIdle
    /\ ConnIdle
    /\ UrlIdle
    /\ RepoInit

RepoSpec == RepoStart /\ [][RepoNext]_vars

\* The last call did step.
Did(step) == \E k \in 1..Len(repoSteps) : repoSteps[k] = step

\* How often the last call did step.
TimesDone(step) ==
    Cardinality({k \in 1..Len(repoSteps) : repoSteps[k] = step})

\* C21: clone_repository(repo_url, local_path) never raises; it returns
\* True exactly when local_path did not exist and the clone succeeded; when
\* local_path exists it returns False without invoking the clone, and when
\* the clone fails it returns False.
C21_CloneReturnsTrueIffCloned ==
    repoOp = "clone_repository" =>
        /\ repoResult \in {"True", "False"}
        /\ repoResult = "True" <=> (~existedBefore /\ cloneOutcome = "ok")
        /\ existedBefore => ~Did("clone_from") /\ repoResult = "False"
        /\ cloneOutcome \in {"GitCommandError", "Exception"} =>
              repoResult = "False"

\* C21 witness: a second clone_repository call finds the local path of an
\* earlier clone and returns False.
C21_Witness ==
    /\ repoOp = "clone_repository"
    /\ repoCalls >= 2
    /\ existedBefore
    /\ repoResult = "False"

\* C22: process_repository does validate URL, clone, extract in that order:
\* for an invalid URL it returns [] without attempting a clone; when the
\* clone step returns False (the clone failed or local_path existed, as on
\* a second call for the same local_path) it returns [] without reading
\* any file; otherwise it returns exactly the result of extract_code_files.
C22_ValidateCloneExtractInOrder ==
    repoOp = "process_repository" =>
        LET all    == << "validate_github_url", "exists", "clone_from",
                         "extract_code_files" >>
            valid  == ValidateGithubUrl(urlArg)
            cloned == ~existedBefore /\ cloneOutcome = "ok"
        IN  /\ Len(repoSteps) <= Len(all)
            /\ repoSteps = SubSeq(all, 1, Len(repoSteps))
            /\ ~valid => repoResult = "[]"
                         /\ repoSteps = << "validate_github_url" >>
            /\ (valid /\ ~cloned) =>
                  repoResult = "[]" /\ ~Did("extract_code_files")
            /\ (valid /\ existedBefore) => ~Did("clone_from")
            /\ (valid /\ cloned) =>
                  /\ repoSteps = all
                  /\ repoResult = extractOutcome
                  /\ extractOutcome \in {"code_files", "raised"}
                  /\ localExists

\* C22 witness: a second process_repository call with a valid URL finds
\* the local path and returns [] without cloning or reading.
C22_Witness ==
    /\ repoOp = "process_repository"
    /\ repoCalls >= 2
    /\ ValidateGithubUrl(urlArg)
    /\ existedBefore
    /\ repoResult = "[]"

\* C23: update_repository updates an existing repository or clones it:
\* when the local path exists and the pull succeeds it returns the path
\* without cloning; when the pull fails it removes the copy, clones anew
\* and returns the path; when the local path does not exist it clones the
\* repository and returns its path.
C23_UpdateOrClone ==
    repoOp = "update_repository" =>
        /\ Did("pull_ok") =>
              repoResult = "path" /\ ~Did("clone") /\ existedBefore
        /\ Did("pull_failed") =>
              /\ Did("rmtree") /\ Did("clone")
              /\ repoResult \in {"path", "GitHubConnectorError"}
        /\ ~existedBefore =>
              /\ Did("clone")
              /\ repoResult \in {"path", "GitHubConnectorError"}

\* C26: for every value of max_retries, _clone_with_retry either returns
\* the local path after a successful clone attempt or raises
\* GitHubConnectorError after max_retries failed attempts; it makes at most
\* max_retries attempts, waits only between two consecutive attempts, and
\* never returns without a successful clone.
C26_ReturnsPathOrRaises ==
    repoOp = "_clone_with_retry" =>
        /\ TimesDone("git_clone") <= max_retries
        /\ \A k \in 1..Len(repoSteps) :
              repoSteps[k] = "sleep" =>
                  /\ k > 1 /\ repoSteps[k - 1] = "git_clone"
                  /\ (repoPc = "idle" => k < Len(repoSteps))
        /\ repoPc = "idle" =>
              /\ repoResult \in {"path", "GitHubConnectorError"}
              /\ repoResult = "path" => cloneOutcome = "ok"
              /\ repoResult = "GitHubConnectorError" =>
                    TimesDone("git_clone") = max_retries

====
